---- MODULE Spec2Model ----
(***************************************************************************)
(* Model of the BLS slot monitor (src/src/main.py and the components one   *)
(* check cycle runs through).  One asyncio task runs Monitor.run; an       *)
(* action of the model is the code the task executes between two           *)
(* suspension points (awaits that really suspend), so pc and stage name    *)
(* the await the task is parked on.  The signal handler runs on the event  *)
(* loop while the task is parked.                                          *)
(***************************************************************************)
EXTENDS Integers, Sequences, FiniteSets, TLC

VARIABLES
    pc,                  \* Monitor.run: the await the task is suspended on
    stage,               \* SlotChecker.check_once: the await inside the cycle
    loc,                 \* locals of the calls in progress inside check_once
    shutdown,            \* Monitor._shutdown
    consecutive_errors,  \* Monitor.consecutive_errors
    total_checks,        \* Monitor.total_checks
    max_retries,         \* config["monitoring"]["max_retries"]
    browser,             \* local `browser` of Monitor.run
    checker,             \* local `checker` of Monitor.run
    captcha,             \* Monitor._captcha
    last_login,          \* Authenticator._last_login_time (0 = never)
    orphans,             \* Chrome processes no BrowserManager of run refers to
    outbox,              \* notifier calls made since the last inter-cycle wait
    last_exc,            \* exception logged by the handler in this iteration
    shots,               \* screenshots/check_<ts>.png on disk, by their <ts>
    last_ts,             \* int(time.time()) of the latest cycle screenshot
    rotation,            \* what the latest _rotate_screenshots call did
    page,                \* the document a component call is reading
    ret,                 \* locals and return value of a component call
    trace                \* page and service operations of a component call
                         \* (type_like_human: the latest one only)

\* the evidence store
storev == <<shots, last_ts, rotation>>
\* a component call examined on its own
callv == <<page, ret, trace>>

vars == <<pc, stage, loc, shutdown, consecutive_errors, total_checks,
          max_retries, browser, checker, captcha, last_login, orphans,
          outbox, last_exc, storev, callv>>

-----------------------------------------------------------------------------
(* Bounds of the model *)

MaxRetriesCfg == 3
MaxChecks == 2
MaxOrphans == 1
\* cycle screenshots taken in a run of the evidence store
MaxShots == 55
\* os.remove calls that raise OSError in one rotation
MaxStuck == 1
\* phrases on the page submit_and_check reads
MaxFragments == 2
\* frames of the page _detect reads, the main frame included
MaxFrames == 2
\* elements with a data-sitekey attribute on that page, all frames together
MaxElems == 2
\* instruction labels and cell images of the grid captcha, together
MaxGridElems == 3
\* UserId* and Password* inputs of the login form, decoys included
MaxInputs == 3
\* characters of the text type_like_human types
MaxChars == 2
\* characters of a token of the solving service
MaxTokenLen == 2
\* total_checks in a run of the loop over many iterations
MaxTotal == 41
\* iterations of that run that raise
MaxFailed == 2
\* labels of the six form fields that are absent from the form page
MaxMissing == 1
\* labels on the form page besides those of the six fields
MaxExtra == 1

(* Program constants *)

MAX_SOLVE_RETRIES == 3
BALANCE_CHECK_INTERVAL == 20
\* LOW_BALANCE_THRESHOLD = 0.5 USD, kept in cents
LOW_BALANCE_THRESHOLD == 50
\* for _ in range(15) in _handle_cloudflare
CF_POLLS == 15
\* for _ in range(10) in login
POPUP_POLLS == 10
\* MonitoringConfig.session_refresh_interval, seconds
session_refresh_interval == 1800
\* slot_checker.MAX_SCREENSHOTS
MAX_SCREENSHOTS == 50

(* Inputs of the environment *)

\* check_balance(): -1.0 on failure, else the balance; in cents
Balances == {-100, 49, 50}
\* time.time() - _last_login_time when ensure_authenticated runs
ElapsedSamples == {0, session_refresh_interval - 1, session_refresh_interval}
\* families _detect can return
Families == {"hcaptcha", "turnstile", "recaptcha"}
\* result["code"] of a successful solving-service call
Codes == {"tokA", "tokB"}

NoLoc == [ctx |-> "none", ctype |-> "none", attempt |-> 0, polls |-> 0,
          token |-> "none", available |-> FALSE]

-----------------------------------------------------------------------------
(* Notifier: a call appends its kind to the outbox; _send swallows errors. *)

Send(out, m) == Append(out, m)

Count(out, m) == Cardinality({i \in 1..Len(out) : out[i] = m})

\* Monitor._check_captcha_balance
CheckCaptchaBalance(out, cap, bal) ==
    IF cap = "none" THEN out
    ELSE IF bal < 0 THEN out
    ELSE IF bal < LOW_BALANCE_THRESHOLD THEN Send(out, "low_balance")
    ELSE out

\* Monitor.run, "Health report & balance check every N checks"
HealthReport(out, tc, cap, bal) ==
    IF tc > 0 /\ tc % BALANCE_CHECK_INTERVAL = 0
    THEN CheckCaptchaBalance(Send(out, "health"), cap, bal)
    ELSE out

\* Monitor._close_browser: awaits browser.close() only when there is a browser
NeedsClose(br) == br = "live"

\* variant: the final status is sent before the browser is closed
GracefulShutdown_NotifyFirst(out, br) ==
    IF NeedsClose(br)
    THEN pc' = "closing_final" /\ outbox' = Send(out, "stopped")
    ELSE pc' = "done" /\ outbox' = Send(out, "stopped")

\* Monitor.run, "Graceful shutdown": close the browser, then the final status
GracefulShutdown(out, br) ==
    IF NeedsClose(br)
    THEN pc' = "closing_final" /\ outbox' = out
    ELSE pc' = "done" /\ outbox' = Send(out, "stopped")

\* "if self._shutdown: break" after the health report
BreakTaken(flag) == flag

\* variant: "while True", leaving the loop only by the break
WhileContinues_Always(flag) == TRUE

\* "while not self._shutdown"
WhileContinues(flag) == ~flag

\* Monitor.run, from the health report to the randomized wait
LoopTail(out, tc, cap, br, bal) ==
    LET out2 == HealthReport(out, tc, cap, bal) IN
    IF BreakTaken(shutdown)
    THEN GracefulShutdown(out2, br)
    ELSE pc' = "wait" /\ outbox' = out2

-----------------------------------------------------------------------------
(* Monitor.run: the except branch and what follows it *)

\* variant: the components are created outside the try block
InTry_CheckOnly(p) == p \in {"checking", "pause"}

\* the awaits that lie inside the try block of Monitor.run
InTry(p) == p \in {"launching", "checking", "pause"}

\* variant: one count per failed solving attempt
ErrorsAfterException_PerAttempt(errs) ==
    errs + (IF loc.attempt > 0 THEN loc.attempt ELSE 1)

\* "self.consecutive_errors += 1"
ErrorsAfterException(errs) == errs + 1

\* variant: the counter is not reset on success
ErrorsAfterSuccess_Kept(errs) == errs

\* "self.consecutive_errors = 0" after check_once returned
ErrorsAfterSuccess(errs) == 0

\* variant: the counter is not reset after the cool-down
ErrorsAfterCooldown_Kept(errs) == errs

\* "self.consecutive_errors = 0" after the cool-down sleep
ErrorsAfterCooldown(errs) == 0

\* variant: ">" instead of ">="
Escalate_Strict(errs, limit) == errs > limit

\* "if self.consecutive_errors >= self.config['monitoring']['max_retries']"
Escalate(errs, limit) == errs >= limit

\* variant: the browser and the checker are kept after a failure
AfterClose_Keep(errs, bal) ==
    /\ UNCHANGED <<browser, checker>>
    /\ IF Escalate(errs, max_retries)
       THEN pc' = "cooldown" /\ outbox' = Send(outbox, "alert")
       ELSE LoopTail(outbox, total_checks, captcha, browser, bal)

\* "browser = None; checker = None", the escalation test, then the loop tail
AfterClose(errs, bal) ==
    /\ browser' = "none"
    /\ checker' = "none"
    /\ IF Escalate(errs, max_retries)
       THEN pc' = "cooldown" /\ outbox' = Send(outbox, "alert")
       ELSE LoopTail(outbox, total_checks, captcha, "none", bal)

\* variant: the failed cycle is counted as a check
ExceptHandler_CountsCheck(e, bal) ==
    /\ stage' = "idle"
    /\ loc' = NoLoc
    /\ last_exc' = e
    /\ consecutive_errors' = ErrorsAfterException(consecutive_errors)
    /\ total_checks' = total_checks + 1
    /\ IF NeedsClose(browser)
       THEN pc' = "closing" /\ UNCHANGED <<browser, checker, outbox>>
       ELSE AfterClose(ErrorsAfterException(consecutive_errors), bal)
    /\ UNCHANGED <<shutdown, max_retries, captcha, last_login>>

\* "except Exception as e": count, log, close the browser
ExceptHandler(e, bal) ==
    /\ stage' = "idle"
    /\ loc' = NoLoc
    /\ last_exc' = e
    /\ consecutive_errors' = ErrorsAfterException(consecutive_errors)
    /\ IF NeedsClose(browser)
       THEN pc' = "closing" /\ UNCHANGED <<browser, checker, outbox>>
       ELSE AfterClose(ErrorsAfterException(consecutive_errors), bal)
    /\ UNCHANGED <<shutdown, total_checks, max_retries, captcha, last_login>>

\* an exception leaves the await the task is parked on
Raise(e, bal) ==
    IF InTry(pc)
    THEN ExceptHandler(e, bal)
    ELSE /\ pc' = "crashed"
         /\ last_exc' = e
         /\ UNCHANGED <<stage, loc, shutdown, consecutive_errors, total_checks,
                        max_retries, browser, checker, captcha, last_login,
                        outbox>>

\* variant: a session is still fresh at exactly the refresh interval
SessionValid_Inclusive(last, elapsed) ==
    IF last = 0 THEN FALSE ELSE elapsed <= session_refresh_interval

\* Authenticator.session_valid
SessionValid(last, elapsed) ==
    IF last = 0 THEN FALSE ELSE elapsed < session_refresh_interval

\* check_once is called and runs up to the first await of ensure_authenticated
FirstStage(last, elapsed) ==
    IF SessionValid(last, elapsed) THEN "probe" ELSE "login_goto"

\* variant: check_once is scheduled and not awaited
CallCheckOnce_NotAwaited(last, elapsed) ==
    /\ pc' = "wait"
    /\ stage' = FirstStage(last, elapsed)
    /\ loc' = NoLoc

\* "await checker.check_once()": run is parked until check_once is over
CallCheckOnce(last, elapsed) ==
    /\ pc' = "checking"
    /\ stage' = FirstStage(last, elapsed)
    /\ loc' = NoLoc

\* _kill_zombie_chrome at the start of BrowserManager.launch: a stray Chrome
\* is killed when it listens on the CDP port
AfterZombieKill(n) == {0, n}

\* "if browser is None: browser, checker = await self._create_components()"
BeginIteration(out, elapsed) ==
    IF browser = "none"
    THEN /\ pc' = "launching"
         /\ orphans' \in AfterZombieKill(orphans)
         /\ outbox' = out
         /\ UNCHANGED <<stage, loc>>
    ELSE /\ CallCheckOnce(last_login, elapsed)
         /\ outbox' = out
         /\ UNCHANGED orphans

-----------------------------------------------------------------------------
(* The evidence store: screenshots/check_<ts>.png.  A file is named by the  *)
(* second it was taken in and carries that second as modification time.    *)

NoRotation == [written |-> 0, removed |-> {}, failed |-> {}]

\* page.screenshot(path=check_<ts>.png): the file is created or overwritten
WriteScreenshot(files, ts) == files \cup {ts}

\* sorted(glob.glob(pattern), key=os.path.getmtime): oldest first
RECURSIVE SortedByMtime(_)
SortedByMtime(files) ==
    IF files = {}
    THEN <<>>
    ELSE LET oldest == CHOOSE f \in files : \A g \in files : f <= g
         IN <<oldest>> \o SortedByMtime(files \ {oldest})

\* a rotation that lets one file more than the cap stay
ToRemove_KeepsOneMore(files) ==
    LET sorted == SortedByMtime(files)
    IN IF Len(sorted) > MAX_SCREENSHOTS + 1
       THEN {sorted[i] : i \in 1..(Len(sorted) - MAX_SCREENSHOTS - 1)}
       ELSE {}

\* a rotation that keeps the head of the list: files[MAX_SCREENSHOTS:]
ToRemove_NewestFirst(files) ==
    LET sorted == SortedByMtime(files)
    IN IF Len(sorted) > MAX_SCREENSHOTS
       THEN {sorted[i] : i \in (MAX_SCREENSHOTS + 1)..Len(sorted)}
       ELSE {}

\* to_remove = files[:-MAX_SCREENSHOTS] if len(files) > MAX_SCREENSHOTS else []
ToRemove(files) ==
    LET sorted == SortedByMtime(files)
    IN IF Len(sorted) > MAX_SCREENSHOTS
       THEN {sorted[i] : i \in 1..(Len(sorted) - MAX_SCREENSHOTS)}
       ELSE {}

\* the os.remove calls of one rotation that may raise OSError
RemoveFailures(files) ==
    {F \in SUBSET ToRemove(files) : Cardinality(F) <= MaxStuck}

\* _rotate_screenshots: os.remove on each of to_remove, "except OSError: pass"
RotateScreenshots(files, failed) == files \ (ToRemove(files) \ failed)

\* check_once steps 5 and 6: the screenshot of this second, then the rotation
SaveAndRotate ==
    LET ts == last_ts + 1
        written == WriteScreenshot(shots, ts)
    IN \E failed \in RemoveFailures(written) :
         /\ last_ts' = ts
         /\ shots' = RotateScreenshots(written, failed)
         /\ rotation' = [written |-> ts,
                         removed |-> ToRemove(written) \ failed,
                         failed |-> failed]

-----------------------------------------------------------------------------
\* Monitor.__init__: nothing runs yet
MonitorInit ==
    /\ pc = "init"
    /\ stage = "idle"
    /\ loc = NoLoc
    /\ shutdown = FALSE
    /\ consecutive_errors = 0
    /\ total_checks = 0
    /\ max_retries \in 1..MaxRetriesCfg
    /\ browser = "none"
    /\ checker = "none"
    /\ captcha = "none"
    /\ last_login = 0
    /\ orphans = 0
    /\ outbox = <<>>
    /\ last_exc = "none"

\* an empty screenshots directory
StoreInit ==
    /\ shots = {}
    /\ last_ts = 0
    /\ rotation = NoRotation

\* no component call is being examined
NoCall ==
    /\ page = "none"
    /\ ret = "none"
    /\ trace = <<>>

Init == MonitorInit /\ StoreInit /\ NoCall

\* Monitor.run up to the first await: status message, handlers, first test
RunStart ==
    /\ UNCHANGED <<storev, callv>>
    /\ pc = "init"
    /\ \E elapsed \in ElapsedSamples :
         BeginIteration(Send(outbox, "started"), elapsed)
    /\ UNCHANGED <<shutdown, consecutive_errors, total_checks, max_retries,
                   browser, checker, captcha, last_login, last_exc>>

\* Monitor._handle_signal, run by the event loop while the task is parked
HandleSignal ==
    /\ UNCHANGED <<storev, callv>>
    /\ pc \notin {"init", "done", "crashed"}
    /\ ~shutdown
    /\ shutdown' = TRUE
    /\ UNCHANGED <<pc, stage, loc, consecutive_errors, total_checks,
                   max_retries, browser, checker, captcha, last_login, orphans,
                   outbox, last_exc>>

\* _create_components: browser.launch() is over
LaunchDone ==
    /\ UNCHANGED <<storev, callv>>
    /\ pc = "launching"
    /\ \E r \in {"ok", "fail_early", "fail_cdp"}, bal \in Balances,
          elapsed \in ElapsedSamples :
         IF r = "ok"
         THEN /\ browser' = "live"
              /\ checker' = "set"
              /\ captcha' = "set"
              /\ last_login' = 0
              /\ outbox' = CheckCaptchaBalance(outbox, "set", bal)
              /\ CallCheckOnce(0, elapsed)
              /\ UNCHANGED <<shutdown, consecutive_errors, total_checks,
                             max_retries, orphans, last_exc>>
         ELSE /\ IF r = "fail_cdp"
                 THEN orphans < MaxOrphans /\ orphans' = orphans + 1
                 ELSE orphans' = orphans
              /\ Raise("launch", bal)

\* "await self._close_browser(browser)" in the except branch is over;
\* a failure of close() is swallowed and can leave the Chrome process behind
CloseDone ==
    /\ UNCHANGED <<storev, callv>>
    /\ pc = "closing"
    /\ \E r \in {"ok", "raise"}, bal \in Balances :
         /\ IF r = "raise"
            THEN orphans < MaxOrphans /\ orphans' = orphans + 1
            ELSE orphans' = orphans
         /\ AfterClose(consecutive_errors, bal)
    /\ UNCHANGED <<stage, loc, shutdown, consecutive_errors, total_checks,
                   max_retries, captcha, last_login, last_exc>>

\* "await asyncio.sleep(300)" is over: reset the counter, go on to the tail
CooldownDone ==
    /\ UNCHANGED <<storev, callv>>
    /\ pc = "cooldown"
    /\ consecutive_errors' = ErrorsAfterCooldown(consecutive_errors)
    /\ \E bal \in Balances :
         LoopTail(outbox, total_checks, captcha, browser, bal)
    /\ UNCHANGED <<stage, loc, shutdown, total_checks, max_retries, browser,
                   checker, captcha, last_login, orphans, last_exc>>

\* "await asyncio.sleep(60)" after a slot alert is over
PauseDone ==
    /\ UNCHANGED <<storev, callv>>
    /\ pc = "pause"
    /\ \E bal \in Balances :
         LoopTail(outbox, total_checks, captcha, browser, bal)
    /\ UNCHANGED <<stage, loc, shutdown, consecutive_errors, total_checks,
                   max_retries, browser, checker, captcha, last_login, orphans,
                   last_exc>>

\* "await asyncio.sleep(wait)" is over: the while test, then the next iteration
WaitDone ==
    /\ UNCHANGED <<storev, callv>>
    /\ pc = "wait"
    /\ last_exc' = "none"
    /\ IF WhileContinues(shutdown)
       THEN \E elapsed \in ElapsedSamples : BeginIteration(<<>>, elapsed)
       ELSE /\ GracefulShutdown(<<>>, browser)
            /\ UNCHANGED <<stage, loc, orphans>>
    /\ UNCHANGED <<shutdown, consecutive_errors, total_checks, max_retries,
                   browser, checker, captcha, last_login>>

\* "await self._close_browser(browser)" of the graceful shutdown is over
FinalCloseDone ==
    /\ UNCHANGED <<storev, callv>>
    /\ pc = "closing_final"
    /\ \E r \in {"ok", "raise"} :
         IF r = "raise"
         THEN /\ orphans < MaxOrphans
              /\ orphans' = orphans + 1
              /\ browser' = "close_failed"
         ELSE /\ orphans' = orphans
              /\ browser' = "closed"
    /\ pc' = "done"
    /\ outbox' = Send(outbox, "stopped")
    /\ UNCHANGED <<stage, loc, shutdown, consecutive_errors, total_checks,
                   max_retries, checker, captcha, last_login, last_exc>>

-----------------------------------------------------------------------------
(* SlotChecker.check_once: one action per await of the cycle *)

RunVars == <<shutdown, consecutive_errors, total_checks, max_retries, browser,
             checker, captcha, orphans, outbox, last_exc>>

\* check_once goes on to its next await
Goto(s, l) ==
    /\ pc' = pc
    /\ stage' = s
    /\ loc' = l
    /\ UNCHANGED RunVars

\* the await raises: nothing inside check_once catches it
Fail(e) ==
    /\ \E bal \in Balances : Raise(e, bal)
    /\ UNCHANGED orphans

AtStage(s) == pc = "checking" /\ stage = s

\* ensure_authenticated with a fresh session: probe the home page
Probe ==
    /\ UNCHANGED <<storev, callv>>
    /\ AtStage("probe")
    /\ \E r \in {"home", "redirect", "raise"} :
         CASE r = "home" -> Goto("nav_form", NoLoc) /\ UNCHANGED last_login
           [] r = "redirect" -> Goto("login_goto", NoLoc) /\ UNCHANGED last_login
           [] OTHER -> Fail("probe")

\* login: goto the login page, then _is_cloudflare
LoginGoto ==
    /\ UNCHANGED <<storev, callv>>
    /\ AtStage("login_goto")
    /\ \E r \in {"clear", "cf", "raise"} :
         CASE r = "clear" -> Goto("credentials", NoLoc) /\ UNCHANGED last_login
           [] r = "cf" -> Goto("cf_poll", NoLoc) /\ UNCHANGED last_login
           [] OTHER -> Fail("goto")

\* _handle_cloudflare: one pass of "for _ in range(15)"
CfPoll ==
    /\ UNCHANGED <<storev, callv>>
    /\ AtStage("cf_poll")
    /\ \E r \in {"gone", "present", "raise"} :
         CASE r = "gone" -> Goto("credentials", NoLoc) /\ UNCHANGED last_login
           [] r = "present" ->
                /\ IF loc.polls + 1 < CF_POLLS
                   THEN Goto("cf_poll", [loc EXCEPT !.polls = @ + 1])
                   ELSE Goto("cf_query", NoLoc)
                /\ UNCHANGED last_login
           [] OTHER -> Fail("page")

\* _handle_cloudflare: look for the Turnstile widget
CfQuery ==
    /\ UNCHANGED <<storev, callv>>
    /\ AtStage("cf_query")
    /\ \E r \in {"widget", "nothing", "raise"} :
         CASE r = "widget" ->
                Goto("detect", [NoLoc EXCEPT !.ctx = "cf"]) /\ UNCHANGED last_login
           [] r = "nothing" -> Goto("cf_reload", NoLoc) /\ UNCHANGED last_login
           [] OTHER -> Fail("page")

\* where detect_and_solve returns to
AfterSolve(ctx, solved) ==
    CASE ctx = "cf" -> "cf_submit"
      [] ctx = "popup" -> IF solved THEN "submit_wait" ELSE "popup_rest"
      [] OTHER -> "nav_submit"

\* detect_and_solve: _detect, then the first call of _solve_remote
Detect ==
    /\ UNCHANGED <<storev, callv>>
    /\ AtStage("detect")
    /\ \E r \in Families \cup {"none", "raise"} :
         CASE r = "none" ->
                Goto(AfterSolve(loc.ctx, FALSE), NoLoc) /\ UNCHANGED last_login
           [] r \in Families ->
                /\ Goto("solve", [loc EXCEPT !.ctype = r, !.attempt = 1])
                /\ UNCHANGED last_login
           [] OTHER -> Fail("detect")

\* variant: "<=" instead of "<"
RetryAgain_OffByOne(attempt) == attempt <= MAX_SOLVE_RETRIES

\* _solve_remote: "if attempt < MAX_SOLVE_RETRIES" and the range of the loop
RetryAgain(attempt) == attempt < MAX_SOLVE_RETRIES

\* _solve_remote: the solving-service call of this attempt is over; a kind
\* with no strategy raises ValueError before any call, and "except
\* ValueError: raise" lets every ValueError through without a retry
SolveCall ==
    /\ UNCHANGED <<storev, callv>>
    /\ AtStage("solve")
    /\ \E r \in Codes \cup {"error", "value_error"} :
         IF loc.ctype \notin Families
         THEN Fail("unknown_captcha")
         ELSE IF r \in Codes
         THEN Goto("inject", [loc EXCEPT !.token = r]) /\ UNCHANGED last_login
         ELSE IF r = "value_error"
         THEN Fail("value_error")
         ELSE IF RetryAgain(loc.attempt)
         THEN Goto("solve_sleep", loc) /\ UNCHANGED last_login
         ELSE Fail("solve_failed")

\* _solve_remote: "await asyncio.sleep(SOLVE_RETRY_DELAY)" is over
SolveSleepDone ==
    /\ UNCHANGED <<storev, callv>>
    /\ AtStage("solve_sleep")
    /\ Goto("solve", [loc EXCEPT !.attempt = @ + 1])
    /\ UNCHANGED last_login

\* detect_and_solve: _inject_token, then return the token
Inject ==
    /\ UNCHANGED <<storev, callv>>
    /\ AtStage("inject")
    /\ \E r \in {"ok", "raise"} :
         IF r = "ok"
         THEN Goto(AfterSolve(loc.ctx, TRUE), NoLoc) /\ UNCHANGED last_login
         ELSE Fail("inject")

\* _handle_cloudflare: submit after the widget, wait for load, look again
CfSubmit ==
    /\ UNCHANGED <<storev, callv>>
    /\ AtStage("cf_submit")
    /\ \E r \in {"gone", "present", "raise"} :
         CASE r = "gone" -> Goto("credentials", NoLoc) /\ UNCHANGED last_login
           [] r = "present" -> Goto("cf_reload", NoLoc) /\ UNCHANGED last_login
           [] OTHER -> Fail("page")

\* _handle_cloudflare: reload, sleep, look a last time
CfReload ==
    /\ UNCHANGED <<storev, callv>>
    /\ AtStage("cf_reload")
    /\ \E r \in {"gone", "present", "raise"} :
         CASE r = "gone" -> Goto("credentials", NoLoc) /\ UNCHANGED last_login
           [] r = "present" -> Fail("cloudflare")
           [] OTHER -> Fail("page")

\* login: type the credentials, tick the checkbox, click Verify
Credentials ==
    /\ UNCHANGED <<storev, callv>>
    /\ AtStage("credentials")
    /\ \E r \in {"ok", "raise"} :
         IF r = "ok"
         THEN Goto("popup_wait", NoLoc) /\ UNCHANGED last_login
         ELSE Fail("page")

\* login: one pass of "for _ in range(10)" looking for the captcha frame;
\* with the frame found, _solve_bls_captcha calls detect_and_solve
PopupPoll ==
    /\ UNCHANGED <<storev, callv>>
    /\ AtStage("popup_wait")
    /\ \E r \in {"frame", "nothing"} :
         IF r = "frame"
         THEN Goto("detect", [NoLoc EXCEPT !.ctx = "popup"]) /\ UNCHANGED last_login
         ELSE IF loc.polls + 1 < POPUP_POLLS
         THEN Goto("popup_wait", [loc EXCEPT !.polls = @ + 1]) /\ UNCHANGED last_login
         ELSE Fail("no_popup")

\* _solve_bls_captcha after detect_and_solve found no standard widget
PopupRest ==
    /\ UNCHANGED <<storev, callv>>
    /\ AtStage("popup_rest")
    /\ \E r \in {"ok", "raise"} :
         IF r = "ok"
         THEN Goto("submit_wait", NoLoc) /\ UNCHANGED last_login
         ELSE Fail("page")

\* variant: the session is stamped as soon as the Login button is clicked
StampedAfter_Click(s, last) ==
    IF s \in {"submit_wait", "url_wait"} THEN 1 ELSE last

\* _last_login_time after the await of login at stage s went through:
\* "self._last_login_time = time.time()" is the last statement but one
StampedAfter(s, last) == IF s = "url_wait" THEN 1 ELSE last

\* login: wait for #btnSubmit to be visible and click it
SubmitWait ==
    /\ UNCHANGED <<storev, callv>>
    /\ AtStage("submit_wait")
    /\ \E r \in {"clicked", "raise"} :
         IF r = "clicked"
         THEN /\ Goto("url_wait", NoLoc)
              /\ last_login' = StampedAfter("submit_wait", last_login)
         ELSE Fail("login_button")

\* login: wait_for_url, then stamp the session; navigate_to_form follows
UrlWait ==
    /\ UNCHANGED <<storev, callv>>
    /\ AtStage("url_wait")
    /\ \E r \in {"home", "timeout_on_login", "timeout_elsewhere"} :
         IF r = "timeout_on_login"
         THEN Fail("login_failed")
         ELSE /\ Goto("nav_form", NoLoc)
              /\ last_login' = StampedAfter("url_wait", last_login)

\* navigate_to_form: goto the verification page, click Verify Selection,
\* then detect_and_solve
NavForm ==
    /\ UNCHANGED <<storev, callv>>
    /\ AtStage("nav_form")
    /\ \E r \in {"ok", "raise"} :
         IF r = "ok"
         THEN Goto("detect", [NoLoc EXCEPT !.ctx = "form"]) /\ UNCHANGED last_login
         ELSE Fail("page")

\* navigate_to_form: click Submit, wait for the form page
NavSubmit ==
    /\ UNCHANGED <<storev, callv>>
    /\ AtStage("nav_submit")
    /\ \E r \in {"ok", "raise"} :
         IF r = "ok"
         THEN Goto("fill_form", NoLoc) /\ UNCHANGED last_login
         ELSE Fail("page")

\* FormFiller.fill_form
FillForm ==
    /\ UNCHANGED <<storev, callv>>
    /\ AtStage("fill_form")
    /\ \E r \in {"ok", "missing", "raise"} :
         CASE r = "ok" -> Goto("submit_check", NoLoc) /\ UNCHANGED last_login
           [] r = "missing" -> Fail("missing_fields")
           [] OTHER -> Fail("page")

\* FormFiller.submit_and_check, then the screenshot is requested
SubmitAndCheck ==
    /\ UNCHANGED <<storev, callv>>
    /\ AtStage("submit_check")
    /\ \E r \in {"true", "false", "raise"} :
         IF r = "raise"
         THEN Fail("page")
         ELSE /\ Goto("screenshot", [NoLoc EXCEPT !.available = (r = "true")])
              /\ UNCHANGED last_login

\* variant: the alert is sent and the loop goes on without the pause
ReportSlots_NoPause(available, out, tc, bal) ==
    LoopTail(IF available THEN Send(out, "slot_alert") ELSE out,
             tc, captcha, browser, bal)

\* "if available: self.notifier.send_slot_alert(screenshot)" and
\* "await asyncio.sleep(60)", else the tail of the loop
ReportSlots(available, out, tc, bal) ==
    IF available
    THEN pc' = "pause" /\ outbox' = Send(out, "slot_alert")
    ELSE LoopTail(out, tc, captcha, browser, bal)

\* check_once: the screenshot is taken, check_once returns; Monitor.run
\* counts the check, resets the error counter and reports the slots
Screenshot ==
    /\ AtStage("screenshot")
    /\ \E r \in {"ok", "raise"}, bal \in Balances :
         IF r = "ok"
         THEN /\ total_checks < MaxChecks
              /\ total_checks' = total_checks + 1
              /\ consecutive_errors' = ErrorsAfterSuccess(consecutive_errors)
              /\ stage' = "idle"
              /\ loc' = NoLoc
              /\ ReportSlots(loc.available, outbox, total_checks + 1, bal)
              /\ SaveAndRotate
              /\ UNCHANGED <<shutdown, max_retries, browser, checker, captcha,
                             last_login, orphans, last_exc, callv>>
         ELSE Raise("screenshot", bal) /\ UNCHANGED <<orphans, storev, callv>>

-----------------------------------------------------------------------------
CheckOnce ==
    \/ Probe \/ LoginGoto \/ CfPoll \/ CfQuery \/ Detect \/ SolveCall
    \/ SolveSleepDone \/ Inject \/ CfSubmit \/ CfReload \/ Credentials
    \/ PopupPoll \/ PopupRest \/ SubmitWait \/ UrlWait \/ NavForm \/ NavSubmit
    \/ FillForm \/ SubmitAndCheck \/ Screenshot

Run ==
    \/ RunStart \/ LaunchDone \/ CloseDone \/ CooldownDone \/ PauseDone
    \/ WaitDone \/ FinalCloseDone

Next == Run \/ CheckOnce \/ HandleSignal

Spec == Init /\ [][Next]_vars

\* every await of the task completes; signals are under no obligation
FairSpec == Spec /\ WF_vars(Run \/ CheckOnce)

-----------------------------------------------------------------------------
(* The evidence store over many cycles.  Only what a cycle does to the     *)
(* store is kept: a cycle that returns went through steps 5 and 6 of       *)
(* check_once, a cycle that raises never reached them.                     *)

monitorv == <<pc, stage, loc, shutdown, consecutive_errors, total_checks,
              max_retries, browser, checker, captcha, last_login, orphans,
              outbox, last_exc>>

\* the monitor variables of a specification that does not run the loop
Parked == MonitorInit /\ max_retries = MaxRetriesCfg

\* check_once returns (available, screenshot_path)
StoreCycleReturned ==
    /\ last_ts < MaxShots
    /\ SaveAndRotate
    /\ ret' = "returned"
    /\ UNCHANGED <<monitorv, page, trace>>

\* check_once raises in steps 1 to 4, or in the screenshot call itself
StoreCycleRaised ==
    /\ ret' = "raised"
    /\ UNCHANGED <<monitorv, storev, page, trace>>

StoreNext == StoreCycleReturned \/ StoreCycleRaised

\* a fresh process with an empty screenshots directory
StoreSpecInit == Parked /\ StoreInit /\ NoCall

StoreSpec == StoreSpecInit /\ [][StoreNext]_vars

-----------------------------------------------------------------------------
(* FormFiller.submit_and_check on its own.  A text is a sequence of words  *)
(* separated by single spaces; "signal in text" is the test for a          *)
(* contiguous run of words.                                                *)

no_slot_signals ==
    << <<"no", "appointments", "available">>,
       <<"no", "slots", "available">>,
       <<"currently,", "no", "slots">>,
       <<"no", "available", "dates">>,
       <<"currently", "unavailable">> >>

slot_signals ==
    << <<"select", "date">>,
       <<"select", "time">>,
       <<"available", "dates">>,
       <<"book", "appointment">>,
       <<"appointment", "date">>,
       <<"calendar">> >>

\* phrases a response page may show, in the page's own letter case
Fragments ==
    { <<"No", "Appointments", "Available">>, <<"no", "slots", "available">>,
      <<"Currently,", "no", "slots">>, <<"No", "available", "dates">>,
      <<"currently", "unavailable">>, <<"no", "slots">>,
      <<"Select", "Date">>, <<"select", "time">>, <<"available", "dates">>,
      <<"Book", "Appointment">>, <<"appointment", "date">>, <<"CALENDAR">>,
      <<"welcome">> }

RECURSIVE Concat(_)
Concat(frags) ==
    IF frags = <<>> THEN <<>> ELSE Head(frags) \o Concat(Tail(frags))

\* inner_text("body") of the pages submit_and_check may be shown
ResponseTexts ==
    {Concat(fs) : fs \in UNION {[1..n -> Fragments] : n \in 0..MaxFragments}}

\* str.lower() on one word
LowerWord(w) ==
    CASE w = "No" -> "no"
      [] w = "Appointments" -> "appointments"
      [] w = "Available" -> "available"
      [] w = "Currently," -> "currently,"
      [] w = "Select" -> "select"
      [] w = "Date" -> "date"
      [] w = "Book" -> "book"
      [] w = "Appointment" -> "appointment"
      [] w = "CALENDAR" -> "calendar"
      [] w = "Category" -> "category"
      [] w = "For" -> "for"
      [] w = "Number" -> "number"
      [] w = "Of" -> "of"
      [] w = "Members" -> "members"
      [] w = "Location" -> "location"
      [] w = "LOCATION" -> "location"
      [] w = "Visa" -> "visa"
      [] w = "Sub" -> "sub"
      [] w = "Type" -> "type"
      [] w = "Email" -> "email"
      [] OTHER -> w

\* text.lower()
Lower(text) == [i \in 1..Len(text) |-> LowerWord(text[i])]

\* signal in text
Contains(text, signal) ==
    \E i \in 0..(Len(text) - Len(signal)) :
       SubSeq(text, i + 1, i + Len(signal)) = signal

\* "for signal in signals: if signal in text": the first match, 0 for none
FirstMatch(signals, text) ==
    IF \E i \in 1..Len(signals) : Contains(text, signals[i])
    THEN CHOOSE i \in 1..Len(signals) :
           /\ Contains(text, signals[i])
           /\ \A j \in 1..(i - 1) : ~Contains(text, signals[j])
    ELSE 0

\* a classification that looks for the positive phrases first
CheckAvailability_PositiveFirst(body) ==
    LET text == Lower(body)
    IN IF FirstMatch(slot_signals, text) # 0 THEN TRUE
       ELSE IF FirstMatch(no_slot_signals, text) # 0 THEN FALSE
       ELSE TRUE

\* FormFiller._check_availability
CheckAvailability(body) ==
    LET text == Lower(body)
    IN IF FirstMatch(no_slot_signals, text) # 0 THEN FALSE
       ELSE IF FirstMatch(slot_signals, text) # 0 THEN TRUE
       ELSE TRUE

ClassifyInit ==
    /\ Parked /\ StoreInit
    /\ page \in [body : ResponseTexts]
    /\ ret = "pending"
    /\ trace = <<>>

\* submit_and_check: the submit control is clicked, or the click raises
ClassifySubmit ==
    /\ ret = "pending" /\ trace = <<>>
    /\ \E r \in {"ok", "raise"} :
         IF r = "ok"
         THEN trace' = <<"click_submit">> /\ ret' = ret
         ELSE trace' = trace /\ ret' = "raised"
    /\ UNCHANGED <<monitorv, storev, page>>

\* submit_and_check: after the delay the body is read and classified
ClassifyRead ==
    /\ ret = "pending" /\ trace = <<"click_submit">>
    /\ \E r \in {"ok", "raise"} :
         IF r = "ok"
         THEN ret' = IF CheckAvailability(page.body) THEN "True" ELSE "False"
         ELSE ret' = "raised"
    /\ trace' = Append(trace, "inner_text")
    /\ UNCHANGED <<monitorv, storev, page>>

ClassifyNext == ClassifySubmit \/ ClassifyRead

ClassifySpec == ClassifyInit /\ [][ClassifyNext]_vars

-----------------------------------------------------------------------------
(* CaptchaSolver._detect on its own.  A frame is the sequence, in document *)
(* order, of the class attributes of its elements that carry data-sitekey; *)
(* frames[1] is the main frame.  The sitekey of an element is its place    *)
(* <<frame, index>>; <<0, 0>> is the key the regex finds in the markup.    *)

\* the class tokens of the three widget families
MarkerClasses == {"h-captcha", "cf-turnstile", "g-recaptcha"}
\* class attributes of elements with data-sitekey
ElemClasses == MarkerClasses \cup {"cf-turnstile-box", "plain"}

\* "marker in cls" for a class attribute, or "marker in html" for its markup
InClass(marker, cls) ==
    \/ cls = marker
    \/ marker = "cf-turnstile" /\ cls = "cf-turnstile-box"

NoneNone == [ctype |-> "None", sitekey |-> <<>>]
DetectPending == [ctype |-> "pending", sitekey |-> <<>>]
DetectRaised == [ctype |-> "raised", sitekey |-> <<>>]

\* frame.query_selector(".<cls>[data-sitekey]"): the first such element, or 0
QuerySelector(frame, cls) ==
    IF \E i \in 1..Len(frame) : frame[i] = cls
    THEN CHOOSE i \in 1..Len(frame) :
           frame[i] = cls /\ \A j \in 1..(i - 1) : frame[j] # cls
    ELSE 0

\* a lookup without the generic [data-sitekey] branch
DetectInFrame_FamiliesOnly(frame, f) ==
    IF QuerySelector(frame, "h-captcha") # 0
    THEN [ctype |-> "hcaptcha",
          sitekey |-> <<f, QuerySelector(frame, "h-captcha")>>]
    ELSE IF QuerySelector(frame, "cf-turnstile") # 0
    THEN [ctype |-> "turnstile",
          sitekey |-> <<f, QuerySelector(frame, "cf-turnstile")>>]
    ELSE IF QuerySelector(frame, "g-recaptcha") # 0
    THEN [ctype |-> "recaptcha",
          sitekey |-> <<f, QuerySelector(frame, "g-recaptcha")>>]
    ELSE NoneNone

\* CaptchaSolver._detect_in_frame on frame number f
DetectInFrame(frame, f) ==
    IF QuerySelector(frame, "h-captcha") # 0
    THEN [ctype |-> "hcaptcha",
          sitekey |-> <<f, QuerySelector(frame, "h-captcha")>>]
    ELSE IF QuerySelector(frame, "cf-turnstile") # 0
    THEN [ctype |-> "turnstile",
          sitekey |-> <<f, QuerySelector(frame, "cf-turnstile")>>]
    ELSE IF QuerySelector(frame, "g-recaptcha") # 0
    THEN [ctype |-> "recaptcha",
          sitekey |-> <<f, QuerySelector(frame, "g-recaptcha")>>]
    ELSE IF Len(frame) > 0
    THEN IF InClass("h-captcha", frame[1])
         THEN [ctype |-> "hcaptcha", sitekey |-> <<f, 1>>]
         ELSE IF InClass("cf-turnstile", frame[1])
         THEN [ctype |-> "turnstile", sitekey |-> <<f, 1>>]
         ELSE [ctype |-> "hcaptcha", sitekey |-> <<f, 1>>]
    ELSE NoneNone

\* CaptchaSolver._detect_from_html: html.match says the regex finds a key,
\* html.hints are the marker names that occur somewhere in the markup
DetectFromHtml(html) ==
    IF ~html.match THEN NoneNone
    ELSE IF "h-captcha" \in html.hints
    THEN [ctype |-> "hcaptcha", sitekey |-> <<0, 0>>]
    ELSE IF "cf-turnstile" \in html.hints
    THEN [ctype |-> "turnstile", sitekey |-> <<0, 0>>]
    ELSE IF "g-recaptcha" \in html.hints
    THEN [ctype |-> "recaptcha", sitekey |-> <<0, 0>>]
    ELSE [ctype |-> "hcaptcha", sitekey |-> <<0, 0>>]

\* a detection that scans the markup before the frames
ConsultOrder_HtmlFirst(n) == [i \in 1..(n + 1) |-> i - 1]

\* _detect: the main frame, the other frames of page.frames, the markup (0)
ConsultOrder(n) == [i \in 1..(n + 1) |-> IF i <= n THEN i ELSE 0]

\* the source _detect consults after those in trace
NextSource == ConsultOrder(Len(page.frames))[Len(trace) + 1]

RECURSIVE TotalLen(_)
TotalLen(frames) ==
    IF frames = <<>> THEN 0 ELSE Len(Head(frames)) + TotalLen(Tail(frames))

\* the pages _detect may be given
DetectPages ==
    LET frameSet == UNION {[1..k -> ElemClasses] : k \in 0..MaxElems}
        framesSet == {fs \in UNION {[1..n -> frameSet] : n \in 1..MaxFrames} :
                        TotalLen(fs) <= MaxElems}
        htmlSet == [match : BOOLEAN, hints : SUBSET MarkerClasses]
    IN {pg \in [frames : framesSet, html : htmlSet] :
          \A i \in 1..Len(pg.frames[1]) : \A m \in MarkerClasses :
             InClass(m, pg.frames[1][i]) => m \in pg.html.hints}

DetectInit ==
    /\ Parked /\ StoreInit
    /\ page \in DetectPages
    /\ ret = DetectPending
    /\ trace = <<>>

\* one source is consulted: a match is returned, no match goes on to the
\* next source, and the last source's answer is returned as it is
Consult(src, result) ==
    /\ ret = DetectPending
    /\ Len(trace) <= Len(page.frames)
    /\ NextSource = src
    /\ trace' = Append(trace, src)
    /\ \E r \in {"ok", "raise"} :
         IF r = "raise" THEN ret' = DetectRaised
         ELSE IF result.ctype # "None" \/ src = 0 THEN ret' = result
         ELSE ret' = ret
    /\ UNCHANGED <<monitorv, storev, page>>

\* _detect step 1: the main page DOM
DetectMain == Consult(1, DetectInFrame(page.frames[1], 1))

\* _detect step 2: one pass of "for frame in page.frames"
DetectChild ==
    \E f \in 2..Len(page.frames) :
       Consult(f, DetectInFrame(page.frames[f], f))

\* _detect step 3: page.content() and the regex scan
DetectHtml == Consult(0, DetectFromHtml(page.html))

DetectNext == DetectMain \/ DetectChild \/ DetectHtml

DetectSpec == DetectInit /\ [][DetectNext]_vars

-----------------------------------------------------------------------------
(* CaptchaSolver.solve_bls_grid on its own.  A label is a .box-label with  *)
(* its visibility and the number its text names (0: none); a cell is a     *)
(* .captcha-img with the way it is shown and the answer the recognition    *)
(* service gives for it (0: the call raises).                              *)

\* real: a shown cell whose image has an id'd ancestor and a data: src;
\* zero_size: the image is sized to nothing;
\* display_none: the cell (the image's parent) is display:none, so the
\*   browser lays the image out with an empty box;
\* visibility_hidden: the cell is visibility:hidden, the box is kept;
\* no_data: a shown cell without an id or with a src that is no data: URL
CellKinds ==
    {"real", "zero_size", "display_none", "visibility_hidden", "no_data"}

GridLabels == [visible : BOOLEAN, num : 0..2]

GridCells ==
    [kind : {"real", "visibility_hidden"}, val : 0..2]
      \cup [kind : {"zero_size", "display_none", "no_data"}, val : {1}]

\* the cell is on screen: of non-zero size and not hidden
Rendered(cell) == cell.kind \in {"real", "no_data"}

\* rect.width === 0 || rect.height === 0, of img.getBoundingClientRect()
EmptyRect(cell) == cell.kind \in {"zero_size", "display_none"}

\* style.display === 'none' || style.visibility === 'hidden', of the
\* computed style of img.parentElement
ParentHidden(cell) == cell.kind \in {"display_none", "visibility_hidden"}

\* a cell script that looks at the bounding box only
PassesCellFilter_RectOnly(cell) == ~EmptyRect(cell)

\* the cell script pushes the image unless one of the two tests skips it
PassesCellFilter(cell) == ~EmptyRect(cell) /\ ~ParentHidden(cell)

\* cell.get("src"), cell.get("id") and src.startswith("data:")
Recognizable(cell) == cell.kind # "no_data"

\* the first of a set of indexes in document order, 0 for none
FirstIndex(idx) ==
    IF idx = {} THEN 0 ELSE CHOOSE j \in idx : \A h \in idx : j <= h

\* the label script: the first visible label naming a number, else
\* ("Fallback: try all labels") the first label naming one, else null (0)
TargetLabel(labels) ==
    LET visibleNumber == {j \in 1..Len(labels) :
                            labels[j].visible /\ labels[j].num # 0}
        anyNumber == {j \in 1..Len(labels) : labels[j].num # 0}
    IN IF FirstIndex(visibleNumber) # 0
       THEN FirstIndex(visibleNumber)
       ELSE FirstIndex(anyNumber)

\* the cell script: the images that pass the filter, in document order
RECURSIVE VisibleCells(_, _)
VisibleCells(cells, n) ==
    IF n > Len(cells) THEN <<>>
    ELSE (IF PassesCellFilter(cells[n]) THEN <<n>> ELSE <<>>)
           \o VisibleCells(cells, n + 1)

\* a comparison that takes every recognized cell for a match
IsMatch_AnyRecognized(recognized, target) == recognized # 0

\* recognized == target_number
IsMatch(recognized, target) == recognized = target

GridStart ==
    [status |-> "pending", step |-> "target", label |-> 0, target |-> 0,
     cells |-> <<>>, i |-> 0, matching |-> <<>>, k |-> 0]

\* own: img.closest('[id]') is the image's own cell; shared: it is one
\* ancestor of every image of the grid, so all cells report the same id
GridPages ==
    {pg \in [labels : UNION {[1..n -> GridLabels] : n \in 0..MaxGridElems},
             cells : UNION {[1..n -> GridCells] : n \in 0..MaxGridElems},
             ids : {"own", "shared"}] :
        Len(pg.labels) + Len(pg.cells) <= MaxGridElems}

\* the images locator(f"#{cell_id} img") resolves to, for the id cell c
\* reported
ClickTargets(pg, c) ==
    IF pg.ids = "own" THEN {c} ELSE 1..Len(pg.cells)

GridInit ==
    /\ Parked /\ StoreInit
    /\ page \in GridPages
    /\ ret = GridStart
    /\ trace = <<>>

GridAt(step) == ret.status = "pending" /\ ret.step = step

GridFrame == UNCHANGED <<monitorv, storev, page>>

\* the loop of step 3 runs on to its next recognition call; past the last
\* cell it returns False when nothing matched and goes on to click otherwise
AfterCell(l, from) ==
    LET j == FirstIndex({h \in from..Len(l.cells) :
                            Recognizable(page.cells[l.cells[h]])})
    IN IF j # 0 THEN [l EXCEPT !.step = "recognize", !.i = j]
       ELSE IF l.matching = <<>> THEN [l EXCEPT !.status = "False"]
       ELSE [l EXCEPT !.step = "click", !.k = 1]

\* step 1: the label script is evaluated
GridTarget ==
    /\ GridAt("target")
    /\ \E r \in {"ok", "raise"} :
         IF r = "raise" THEN ret' = [ret EXCEPT !.status = "raised"]
         ELSE LET lb == TargetLabel(page.labels)
              IN IF lb = 0
                 THEN ret' = [ret EXCEPT !.status = "False"]
                 ELSE ret' = [ret EXCEPT !.step = "cells", !.label = lb,
                                         !.target = page.labels[lb].num]
    /\ trace' = trace
    /\ GridFrame

\* step 2: the cell script is evaluated
GridEnumerate ==
    /\ GridAt("cells")
    /\ \E r \in {"ok", "raise"} :
         IF r = "raise" THEN ret' = [ret EXCEPT !.status = "raised"]
         ELSE LET cells == VisibleCells(page.cells, 1)
              IN IF cells = <<>>
                 THEN ret' = [ret EXCEPT !.status = "False"]
                 ELSE ret' = AfterCell([ret EXCEPT !.cells = cells], 1)
    /\ trace' = trace
    /\ GridFrame

\* matching_ids.append(cell["id"]) done twice over
AddMatch_Twice(matching, c) == matching \o <<c, c>>

\* matching_ids.append(cell["id"])
AddMatch(matching, c) == Append(matching, c)

\* a loop body without the try: the exception of the call leaves the solve
AfterAnswer_Aborting(l, c, recognized) ==
    IF recognized = 0 THEN [l EXCEPT !.status = "raised"]
    ELSE AfterCell(
           IF IsMatch(recognized, l.target)
           THEN [l EXCEPT !.matching = AddMatch(@, c)]
           ELSE l,
           l.i + 1)

\* the body of the try and its except: a match is noted, an answer that
\* differs and a call that raised (0) both go on to the next cell
AfterAnswer(l, c, recognized) ==
    AfterCell(
      IF IsMatch(recognized, l.target)
      THEN [l EXCEPT !.matching = AddMatch(@, c)]
      ELSE l,
      l.i + 1)

\* step 3: one image is sent to the service; an exception of the call is
\* logged and the loop continues
GridRecognize ==
    /\ GridAt("recognize")
    /\ LET c == ret.cells[ret.i]
           recognized == page.cells[c].val
       IN /\ trace' = Append(trace, [op |-> "recognize", cell |-> c])
          /\ ret' = AfterAnswer(ret, c, recognized)
    /\ GridFrame

\* step 4: one matching cell is clicked, or the click raises; a locator that
\* resolves to several images makes the click raise (strict mode)
GridClick ==
    /\ GridAt("click")
    /\ LET c == ret.matching[ret.k]
           strict == Cardinality(ClickTargets(page, c)) = 1
       IN \E r \in IF strict THEN {"ok", "raise"} ELSE {"raise"} :
            IF r = "ok"
            THEN /\ trace' = Append(trace, [op |-> "click", cell |-> c])
                 /\ ret' = IF ret.k < Len(ret.matching)
                           THEN [ret EXCEPT !.k = @ + 1]
                           ELSE [ret EXCEPT !.step = "submit"]
            ELSE /\ trace' = trace
                 /\ ret' = [ret EXCEPT !.status = "raised"]
    /\ GridFrame

\* step 5: "Submit Selection" is clicked
GridSubmit ==
    /\ GridAt("submit")
    /\ \E r \in {"ok", "raise"} :
         IF r = "ok"
         THEN /\ trace' = Append(trace, [op |-> "submit", cell |-> 0])
              /\ ret' = [ret EXCEPT !.status = "True"]
         ELSE /\ trace' = trace
              /\ ret' = [ret EXCEPT !.status = "raised"]
    /\ GridFrame

GridNext ==
    GridTarget \/ GridEnumerate \/ GridRecognize \/ GridClick \/ GridSubmit

GridSpec == GridInit /\ [][GridNext]_vars

-----------------------------------------------------------------------------
(* HumanBehavior.type_like_human as login calls it, on its own.  The form  *)
(* holds inputs whose names start with UserId or Password, in document     *)
(* order, each visible or not; page scripts may show and hide them while   *)
(* the task is suspended.                                                  *)

LoginInputs == [prefix : {"UserId", "Password"}, visible : BOOLEAN]

\* a selector without the :visible filter
Resolve_AnyInput(inputs, prefix) ==
    FirstIndex({j \in 1..Len(inputs) : inputs[j].prefix = prefix})

\* page.locator('input[name^="<prefix>"]:visible').first, resolved when an
\* action is performed: the first match in document order, 0 for none
Resolve(inputs, prefix) ==
    FirstIndex({j \in 1..Len(inputs) :
                  inputs[j].prefix = prefix /\ inputs[j].visible})

TypeInit ==
    /\ Parked /\ StoreInit
    /\ page \in [inputs : UNION {[1..n -> LoginInputs] : n \in 0..MaxInputs}]
    /\ \E prefix \in {"UserId", "Password"}, len \in 1..MaxChars :
         ret = [status |-> "pending", prefix |-> prefix, step |-> "click",
                left |-> len]
    /\ trace = <<>>

\* one locator action: it is performed on the element the locator resolves
\* to at that moment; with no such element it times out and raises
LocatorAction(op, next) ==
    /\ ret.status = "pending"
    /\ ret.step = op
    /\ LET t == Resolve(page.inputs, ret.prefix)
       IN IF t = 0
          THEN trace' = trace /\ ret' = [ret EXCEPT !.status = "raised"]
          ELSE /\ trace' = <<[op |-> op, input |-> t,
                              name |-> page.inputs[t].prefix,
                              shown |-> page.inputs[t].visible]>>
               /\ ret' = next
    /\ UNCHANGED <<monitorv, storev, page>>

\* element.click()
TypeClick == LocatorAction("click", [ret EXCEPT !.step = "fill"])

\* element.fill("")
TypeFill == LocatorAction("fill", [ret EXCEPT !.step = "press"])

\* one pass of "for char in text: element.press(char)"
TypePress ==
    LocatorAction("press",
                  IF ret.left > 1 THEN [ret EXCEPT !.left = @ - 1]
                  ELSE [ret EXCEPT !.left = 0, !.status = "returned"])

\* the page shows or hides one input while the task is suspended
PageScript ==
    /\ ret.status = "pending"
    /\ \E i \in 1..Len(page.inputs) :
         page' = [page EXCEPT !.inputs[i].visible = ~@]
    /\ UNCHANGED <<monitorv, storev, ret, trace>>

TypeNext == TypeClick \/ TypeFill \/ TypePress \/ PageScript

TypeSpec == TypeInit /\ [][TypeNext]_vars

-----------------------------------------------------------------------------
(* The edge challenge at login, on its own: login's test after the page    *)
(* load and Authenticator._handle_cloudflare.  page.cf says the title or   *)
(* the content holds one of CF_INDICATORS, page.turnstile that a           *)
(* .cf-turnstile element exists; page.cleared is set when the indicator    *)
(* goes away while the polling loop still has a poll to make.              *)

CfStart ==
    [status |-> "pending", step |-> "loaded", polls |-> 0]

CfInit ==
    /\ Parked /\ StoreInit
    /\ page \in [cf : BOOLEAN, turnstile : BOOLEAN, cleared : {FALSE}]
    /\ ret = CfStart
    /\ trace = <<>>

CfAt(step) == ret.status = "pending" /\ ret.step = step

\* a loop that sits out its whole budget before it looks at the result
AfterPoll_WaitsBudgetOut(l, present) ==
    IF l.polls + 1 < CF_POLLS
    THEN [l EXCEPT !.polls = @ + 1]
    ELSE [l EXCEPT !.polls = @ + 1, !.step = "query"]

\* one pass of "for _ in range(15)": return when the indicator is gone,
\* else sleep a second and poll again, or fall out of the loop
AfterPoll(l, present) ==
    IF ~present THEN [l EXCEPT !.status = "credentials"]
    ELSE IF l.polls + 1 < CF_POLLS
    THEN [l EXCEPT !.polls = @ + 1]
    ELSE [l EXCEPT !.polls = @ + 1, !.step = "query"]

\* login: "if await self._is_cloudflare(page)" after goto and the delay
CfLoaded ==
    /\ CfAt("loaded")
    /\ \E r \in {"ok", "raise"} :
         IF r = "raise" THEN ret' = [ret EXCEPT !.status = "raised"]
         ELSE IF page.cf THEN ret' = [ret EXCEPT !.step = "poll"]
         ELSE ret' = [ret EXCEPT !.status = "credentials"]
    /\ UNCHANGED <<monitorv, storev, page, trace>>

\* _handle_cloudflare: one poll of the loop
CfPollOnce ==
    /\ CfAt("poll")
    /\ \E r \in {"ok", "raise"} :
         IF r = "raise" THEN ret' = [ret EXCEPT !.status = "raised"]
         ELSE ret' = AfterPoll(ret, page.cf)
    /\ UNCHANGED <<monitorv, storev, page, trace>>

\* _handle_cloudflare: query_selector(".cf-turnstile"); with the widget
\* detect_and_solve is called, without it the page is reloaded
CfTurnstile ==
    /\ CfAt("query")
    /\ \E r \in {"ok", "raise"} :
         IF r = "raise"
         THEN trace' = trace /\ ret' = [ret EXCEPT !.status = "raised"]
         ELSE IF page.turnstile
         THEN /\ trace' = Append(trace, "detect_and_solve")
              /\ ret' = [ret EXCEPT !.step = "solve"]
         ELSE /\ trace' = Append(trace, "reload")
              /\ ret' = [ret EXCEPT !.step = "reload"]
    /\ UNCHANGED <<monitorv, storev, page>>

\* what the calls after detect_and_solve add to the trace: the solving
\* service was contacted when a token came back, "if submit: submit.click()"
AfterWidget(tr, token, submit) ==
    (IF token THEN Append(tr, "service") ELSE tr)
      \o (IF submit THEN <<"submit">> ELSE <<>>)

\* detect_and_solve returns: nothing detected, or a token of the solving
\* service injected; then the submit click, the load wait and the re-test
CfSolved ==
    /\ CfAt("solve")
    /\ \E r \in {"none", "token", "raise"}, submit \in BOOLEAN :
         IF r = "raise"
         THEN /\ trace' = Append(trace, "service")
              /\ ret' = [ret EXCEPT !.status = "raised"]
              /\ page' = page
         ELSE /\ \E cf \in BOOLEAN : page' = [page EXCEPT !.cf = cf]
              /\ IF page'.cf
                 THEN /\ trace' = Append(AfterWidget(trace, r = "token", submit),
                                         "reload")
                      /\ ret' = [ret EXCEPT !.step = "reload"]
                 ELSE /\ trace' = AfterWidget(trace, r = "token", submit)
                      /\ ret' = [ret EXCEPT !.status = "credentials"]
    /\ UNCHANGED <<monitorv, storev>>

\* a handler that trusts the reload
AfterReload_Trusting(l, present) == [l EXCEPT !.status = "credentials"]

\* "if await self._is_cloudflare(page): raise RuntimeError(...)", else the
\* function ends
AfterReload(l, present) ==
    [l EXCEPT !.status = IF present THEN "raised" ELSE "credentials"]

\* page.reload() and sleep(5) are over: the last test of the indicator
CfReloaded ==
    /\ CfAt("reload")
    /\ \E cf \in BOOLEAN :
         /\ page' = [page EXCEPT !.cf = cf]
         /\ ret' = AfterReload(ret, cf)
    /\ UNCHANGED <<monitorv, storev, trace>>

\* the challenge script finishes while the task is suspended
ChallengeClears ==
    /\ ret.status = "pending"
    /\ ret.step \in {"poll", "query", "solve"}
    /\ page.cf
    /\ page' = [page EXCEPT !.cf = FALSE, !.cleared = (ret.step = "poll")]
    /\ UNCHANGED <<monitorv, storev, ret, trace>>

CfNext ==
    CfLoaded \/ CfPollOnce \/ CfTurnstile \/ CfSolved \/ CfReloaded
      \/ ChallengeClears

CfSpec == CfInit /\ [][CfNext]_vars

-----------------------------------------------------------------------------
(* Authenticator.ensure_authenticated on its own.  page.last is             *)
(* _last_login_time (0 = no login succeeded on this Authenticator),         *)
(* page.elapsed is time.time() - _last_login_time, page.url is the URL the  *)
(* browser is on after the goto of the home page; a URL is the sequence of  *)
(* its path segments.  login is one call: it returns or raises, and may     *)
(* have contacted the solving service.                                      *)

\* session ages around the refresh interval
Ages ==
    {0, session_refresh_interval - 1, session_refresh_interval,
     session_refresh_interval + 1}

\* where the goto of home_url can end
ProbeUrls ==
    { <<"Global", "home", "index">>, <<"Global", "account", "Login">>,
      <<"global", "account", "login">>, <<"Global", "Account", "LogIn">>,
      <<"Global", "account", "relogin">> }

\* '"login" in segment.lower()'
SegmentHasLogin(seg) == seg \in {"Login", "login", "LogIn", "relogin"}

\* '"login" in page.url.lower()'
OnLoginSurface(url) == \E i \in 1..Len(url) : SegmentHasLogin(url[i])

EnsureStart == [status |-> "pending", step |-> "entry"]

EnsureInit ==
    /\ Parked /\ StoreInit
    /\ page \in [last : {0, 1}, elapsed : Ages, url : ProbeUrls]
    /\ ret = EnsureStart
    /\ trace = <<>>

EnsureAt(step) == ret.status = "pending" /\ ret.step = step

\* "if not self.session_valid: await self.login(page); return", else the
\* goto of the home page is started
EnsureEntry ==
    /\ EnsureAt("entry")
    /\ IF ~SessionValid(page.last, page.elapsed)
       THEN /\ trace' = Append(trace, "login")
            /\ ret' = [ret EXCEPT !.step = "login"]
       ELSE /\ trace' = Append(trace, "goto_home")
            /\ ret' = [ret EXCEPT !.step = "probe"]
    /\ UNCHANGED <<monitorv, storev, page>>

\* the goto is over (or raised): "if 'login' in page.url.lower()"
EnsureProbed ==
    /\ EnsureAt("probe")
    /\ \E r \in {"ok", "raise"} :
         IF r = "raise"
         THEN trace' = trace /\ ret' = [ret EXCEPT !.status = "raised"]
         ELSE IF OnLoginSurface(page.url)
         THEN /\ trace' = Append(trace, "login")
              /\ ret' = [ret EXCEPT !.step = "login"]
         ELSE /\ trace' = trace
              /\ ret' = [ret EXCEPT !.status = "returned"]
    /\ UNCHANGED <<monitorv, storev, page>>

\* login is over: it returned or raised, with or without a call of the
\* solving service
EnsureLoginDone ==
    /\ EnsureAt("login")
    /\ \E r \in {"returned", "raised"}, service \in BOOLEAN :
         /\ ret' = [ret EXCEPT !.status = r]
         /\ trace' = IF service THEN Append(trace, "service") ELSE trace
    /\ UNCHANGED <<monitorv, storev, page>>

EnsureNext == EnsureEntry \/ EnsureProbed \/ EnsureLoginDone

EnsureSpec == EnsureInit /\ [][EnsureNext]_vars

-----------------------------------------------------------------------------
(* Authenticator.login from the Verify click on, on its own.                *)
(* page.delivery says how the site hands over the captcha surface: "frame"  *)
(* (an iframe of the page whose URL holds CaptchaPublic, in page.frames     *)
(* from poll page.appears on), "navigable" (a separate surface whose URL    *)
(* stands in an inline script of the page) or "none"; page.kind is what the *)
(* surface carries; page.final is the URL the browser is on when            *)
(* wait_for_url ends.                                                       *)

\* the poll of "for _ in range(10)" at which an iframe is first listed
FrameDelays == {1, POPUP_POLLS}

PopupKinds == {"widget", "grid", "text"}

\* where the browser can be when the wait after the Login click ends
FinalUrls ==
    { <<"Global", "home", "index">>, <<"Global", "account", "Login">>,
      <<"global", "account", "login">>, <<"Global", "profile", "edit">>,
      <<"Global", "Home", "index">> }

\* the glob "**/home/**": a path segment "home" with something after it
MatchesHome(url) == \E i \in 1..(Len(url) - 1) : url[i] = "home"

\* a login that accepts the landing path only
LoginVerdict_LandingOnly(url) ==
    IF MatchesHome(url) THEN "ok" ELSE "failed"

\* login, "Wait for navigation away from login": wait_for_url returns, or
\* it raises and the current URL decides
LoginVerdict(url) ==
    IF MatchesHome(url) THEN "ok"
    ELSE IF OnLoginSurface(url) THEN "failed"
    ELSE "soft"

\* 'if "CaptchaPublic" in (frame.url or "")' over page.frames at this poll
FrameListed(pg, poll) == pg.delivery = "frame" /\ poll >= pg.appears

LoginStart ==
    [status |-> "pending", step |-> "verify", polls |-> 0, stamped |-> FALSE]

LoginInit ==
    /\ Parked /\ StoreInit
    /\ page \in [delivery : {"frame", "navigable", "none"},
                 appears : FrameDelays, kind : PopupKinds, final : FinalUrls]
    /\ ret = LoginStart
    /\ trace = <<>>

LoginAt(step) == ret.status = "pending" /\ ret.step = step

\* click_with_delay(#btnVerify) and the delay after it
LoginVerify ==
    /\ LoginAt("verify")
    /\ \E r \in {"ok", "raise"} :
         IF r = "ok"
         THEN /\ trace' = Append(trace, "click_verify")
              /\ ret' = [ret EXCEPT !.step = "popup"]
         ELSE trace' = trace /\ ret' = [ret EXCEPT !.status = "raised"]
    /\ UNCHANGED <<monitorv, storev, page>>

\* one pass of "for _ in range(10)"; after the tenth without a frame
\* "Captcha popup did not appear after clicking Verify" is raised
LoginPopupPoll ==
    /\ LoginAt("popup")
    /\ ret' = IF FrameListed(page, ret.polls + 1)
              THEN [ret EXCEPT !.polls = @ + 1, !.step = "captcha"]
              ELSE IF ret.polls + 1 < POPUP_POLLS
              THEN [ret EXCEPT !.polls = @ + 1]
              ELSE [ret EXCEPT !.polls = @ + 1, !.status = "raised"]
    /\ UNCHANGED <<monitorv, storev, page, trace>>

\* _solve_bls_captcha: detect_and_solve(page) returns a token for a
\* standard widget, None otherwise, or raises
LoginCaptcha ==
    /\ LoginAt("captcha")
    /\ \E r \in {"ok", "raise"} :
         IF page.kind = "widget"
         THEN /\ trace' = trace \o <<"detect_and_solve", "service">>
              /\ ret' = IF r = "ok" THEN [ret EXCEPT !.step = "submit"]
                        ELSE [ret EXCEPT !.status = "raised"]
         ELSE /\ trace' = Append(trace, "detect_and_solve")
              /\ ret' = IF r = "ok" THEN [ret EXCEPT !.step = "inspect"]
                        ELSE [ret EXCEPT !.status = "raised"]
    /\ UNCHANGED <<monitorv, storev, page>>

\* _solve_bls_captcha without a token: the frame is queried for an image, a
\* text input and a button, what was found is logged, and the call returns
LoginInspect ==
    /\ LoginAt("inspect")
    /\ \E r \in {"ok", "raise"} :
         /\ trace' = Append(trace, "query_frame")
         /\ ret' = IF r = "ok" THEN [ret EXCEPT !.step = "submit"]
                   ELSE [ret EXCEPT !.status = "raised"]
    /\ UNCHANGED <<monitorv, storev, page>>

\* wait_for(#btnSubmit visible) and the click; a timeout raises "Login
\* button not visible"
LoginSubmit ==
    /\ LoginAt("submit")
    /\ \E visible \in BOOLEAN :
         IF visible
         THEN /\ trace' = Append(trace, "click_submit")
              /\ ret' = [ret EXCEPT !.step = "url"]
         ELSE trace' = trace /\ ret' = [ret EXCEPT !.status = "raised"]
    /\ UNCHANGED <<monitorv, storev, page>>

\* wait_for_url("**/home/**") is over; "_last_login_time = time.time()"
LoginUrlWait ==
    /\ LoginAt("url")
    /\ LET v == LoginVerdict(page.final)
       IN /\ trace' = IF v = "soft" THEN Append(trace, "warning") ELSE trace
          /\ ret' = IF v = "failed" THEN [ret EXCEPT !.status = "raised"]
                    ELSE [ret EXCEPT !.status = "returned", !.stamped = TRUE]
    /\ UNCHANGED <<monitorv, storev, page>>

LoginNext ==
    LoginVerify \/ LoginPopupPoll \/ LoginCaptcha \/ LoginInspect
      \/ LoginSubmit \/ LoginUrlWait

LoginSpec == LoginInit /\ [][LoginNext]_vars

-----------------------------------------------------------------------------
(* FormFiller.fill_form on its own, and the call of check_once that follows *)
(* it.  page.labels is what query_selector_all("label") returns, each label *)
(* by its inner text (a sequence of words).                                 *)

\* FIELD_DEFS, in the order of the dict
FIELD_DEFS ==
    << [key |-> <<"appointment", "category">>, config_key |-> "appointment_category",
        type |-> "dropdown", has_popup |-> FALSE],
       [key |-> <<"appointment", "for">>, config_key |-> "appointment_for",
        type |-> "radio", has_popup |-> TRUE],
       [key |-> <<"number", "of", "members">>, config_key |-> "number_of_members",
        type |-> "dropdown", has_popup |-> FALSE],
       [key |-> <<"location">>, config_key |-> "location",
        type |-> "dropdown", has_popup |-> FALSE],
       [key |-> <<"visa", "type">>, config_key |-> "visa_type",
        type |-> "dropdown", has_popup |-> FALSE],
       [key |-> <<"visa", "sub", "type">>, config_key |-> "visa_sub_type",
        type |-> "dropdown", has_popup |-> FALSE] >>

\* the fields by their position in FIELD_DEFS
FieldIds == 1..Len(FIELD_DEFS)

\* the labels of the six fields as the form shows them
FieldLabels ==
    { <<"Appointment", "Category">>, <<"Appointment", "For">>,
      <<"Number", "Of", "Members">>, <<"Location">>, <<"Visa", "Type">>,
      <<"Visa", "Sub", "Type">> }

\* other labels: an unrelated one and a second label of the location field
ExtraLabels == { <<"Email">>, <<"LOCATION", "*">> }

\* the label sets of a form: at most MaxMissing field labels are absent and
\* at most MaxExtra other labels are present
LabelSets ==
    {fs \cup es : fs \in {f \in SUBSET FieldLabels :
                              Cardinality(FieldLabels \ f) <= MaxMissing},
                  es \in {e \in SUBSET ExtraLabels : Cardinality(e) <= MaxExtra}}

\* the orders a set of labels can stand in on the page
RECURSIVE Orders(_)
Orders(s) ==
    IF s = {} THEN {<<>>}
    ELSE UNION {{<<x>> \o o : o \in Orders(s \ {x})} : x \in s}

\* "for field_key in FIELD_DEFS: if field_key in label_text: ... break",
\* on the stripped, lower-cased text; 0 for matched_key None
MatchedKey(text) ==
    FirstMatch([f \in FieldIds |-> FIELD_DEFS[f].key], Lower(text))

\* variant: a label of a field already filled is filled again
SkipLabel_NoDedup(key, filled) == key = 0

\* "if matched_key is None or matched_key in filled: continue"
SkipLabel(key, filled) == key = 0 \/ key \in filled

\* variant: one absent field is tolerated
Missing_AllowsOne(filled) ==
    IF Cardinality(FieldIds \ filled) <= 1 THEN {} ELSE FieldIds \ filled

\* "missing = set(FIELD_DEFS.keys()) - filled"
Missing(filled) == FieldIds \ filled

\* the loop is over when every label was looked at: "if missing: raise
\* RuntimeError(f'Missing form fields: {missing}')", else the call returns
LoopEnd(l, labels) ==
    IF l.i <= Len(labels) THEN l
    ELSE IF Missing(l.filled) # {}
    THEN [l EXCEPT !.status = "raised", !.missing = Missing(l.filled)]
    ELSE [l EXCEPT !.status = "returned"]

FillStart ==
    [status |-> "pending", step |-> "collect", i |-> 1, filled |-> {},
     missing |-> {}]

FillInit ==
    /\ Parked /\ StoreInit
    /\ page \in [labels : UNION {Orders(s) : s \in LabelSets}]
    /\ ret = FillStart
    /\ trace = <<>>

FillAt(step) == ret.status = "pending" /\ ret.step = step

\* 'labels = await page.query_selector_all("label")'
FillCollect ==
    /\ FillAt("collect")
    /\ \E r \in {"ok", "raise"} :
         ret' = IF r = "ok" THEN LoopEnd([ret EXCEPT !.step = "loop"], page.labels)
                ELSE [ret EXCEPT !.status = "page_error"]
    /\ UNCHANGED <<monitorv, storev, page, trace>>

\* one pass of "for label_el in labels": the text is matched, a new field
\* is filled with its configured value by the routine of its type
FillLabel ==
    /\ FillAt("loop")
    /\ LET key == MatchedKey(page.labels[ret.i])
           next == [ret EXCEPT !.i = @ + 1]
       IN \E r \in {"ok", "raise"} :
            IF r = "raise"
            THEN trace' = trace /\ ret' = [ret EXCEPT !.status = "page_error"]
            ELSE IF SkipLabel(key, ret.filled)
            THEN trace' = trace /\ ret' = LoopEnd(next, page.labels)
            ELSE /\ trace' = Append(trace, [op |-> FIELD_DEFS[key].type,
                                            field |-> key,
                                            value |-> FIELD_DEFS[key].config_key,
                                            label |-> ret.i])
                 /\ ret' = LoopEnd([next EXCEPT !.filled = @ \cup {key}],
                                   page.labels)
    /\ UNCHANGED <<monitorv, storev, page>>

\* check_once, step 4: fill_form returned, submit_and_check is called
FillThenSubmit ==
    /\ ret.status = "returned" /\ ret.step = "loop"
    /\ ret' = [ret EXCEPT !.step = "submit_and_check"]
    /\ UNCHANGED <<monitorv, storev, page, trace>>

FillNext == FillCollect \/ FillLabel \/ FillThenSubmit

FillSpec == FillInit /\ [][FillNext]_vars

-----------------------------------------------------------------------------
(* The loop of Monitor.run over many iterations.  Only the counters and the *)
(* notifier calls of an iteration are kept: an action is one pass of the    *)
(* while loop, from the try block to the randomized wait.  outbox holds the *)
(* notifier calls of the latest pass, trace the value of total_checks at    *)
(* each health report, ret the number of passes that raised.                *)

\* the try block went through: check_once returned
HealthCycleReturned ==
    /\ total_checks < MaxTotal
    /\ \E available \in BOOLEAN, bal \in Balances :
         LET tc == total_checks + 1
             out == HealthReport(IF available THEN <<"slot_alert">> ELSE <<>>,
                                 tc, "set", bal)
         IN /\ total_checks' = tc
            /\ consecutive_errors' = ErrorsAfterSuccess(consecutive_errors)
            /\ outbox' = out
            /\ trace' = IF Count(out, "health") > 0 THEN Append(trace, tc)
                        ELSE trace
    /\ pc' = "wait"
    /\ browser' = "live" /\ checker' = "set" /\ captcha' = "set"
    /\ last_login' = 1
    /\ last_exc' = "none"
    /\ UNCHANGED <<stage, loc, shutdown, max_retries, orphans, storev, page,
                   ret>>

\* the try block raised: the except branch, then the health test
HealthCycleRaised ==
    /\ ret < MaxFailed
    /\ ret' = ret + 1
    /\ \E bal \in Balances, cap \in {captcha, "set"} :
         LET errs == ErrorsAfterException(consecutive_errors)
             alert == IF Escalate(errs, max_retries) THEN <<"alert">> ELSE <<>>
             out == HealthReport(alert, total_checks, cap, bal)
         IN /\ consecutive_errors' = IF Escalate(errs, max_retries)
                                     THEN ErrorsAfterCooldown(errs) ELSE errs
            /\ captcha' = cap
            /\ outbox' = out
            /\ trace' = IF Count(out, "health") > 0
                        THEN Append(trace, total_checks) ELSE trace
    /\ pc' = "wait"
    /\ browser' = "none" /\ checker' = "none"
    /\ last_exc' = "cycle"
    /\ UNCHANGED <<stage, loc, shutdown, total_checks, max_retries, last_login,
                   orphans, storev, page>>

HealthNext == HealthCycleReturned \/ HealthCycleRaised

\* run has sent its start message; no pass of the loop was made
HealthInit ==
    /\ MonitorInit /\ StoreInit
    /\ page = "none"
    /\ ret = 0
    /\ trace = <<>>

HealthSpec == HealthInit /\ [][HealthNext]_vars

-----------------------------------------------------------------------------
(* CaptchaSolver.detect_and_solve and _solve_remote on their own.           *)
(* ret.entry names the function that was called.  page.kind is what _detect *)
(* returns for the page (for a call of _solve_remote: its captcha_type      *)
(* argument), page.fields the response fields the document has, page.value  *)
(* their values.  A token is a sequence of characters; "quote",             *)
(* "backslash", "newline" and "cr" stand for the characters ', \, LF, CR.   *)

\* captcha_type values _solve_remote can be called with
Kinds == Families \cup {"grid", "funcaptcha"}

TokenChars == {"a", "n", "quote", "backslash", "newline", "cr"}

\* result["code"] of the solving service
Tokens == UNION {[1..n -> TokenChars] : n \in 1..MaxTokenLen}

ResponseFields ==
    {"h-captcha-response", "g-recaptcha-response", "cf-turnstile-response"}

\* variant: the backslash is left as it is
EscapeChar_NoBackslash(c) ==
    CASE c = "quote" -> <<"backslash", "quote">>
      [] c = "newline" -> <<"backslash", "n">>
      [] OTHER -> <<c>>

\* _inject_token: token.replace("\\", "\\\\").replace("'", "\\'")
\* .replace("\n", "\\n"), one character at a time
EscapeChar(c) ==
    CASE c = "backslash" -> <<"backslash", "backslash">>
      [] c = "quote" -> <<"backslash", "quote">>
      [] c = "newline" -> <<"backslash", "n">>
      [] OTHER -> <<c>>

RECURSIVE Escape(_)
Escape(token) ==
    IF token = <<>> THEN <<>>
    ELSE EscapeChar(Head(token)) \o Escape(Tail(token))

\* the value of the JavaScript literal '<src>': a raw line terminator or an
\* unescaped quote inside it is a syntax error, a backslash escapes the
\* character after it
RECURSIVE JsString(_)
JsString(src) ==
    IF src = <<>> THEN [ok |-> TRUE, val |-> <<>>]
    ELSE IF Head(src) \in {"quote", "newline", "cr"}
    THEN [ok |-> FALSE, val |-> <<>>]
    ELSE IF Head(src) = "backslash"
    THEN IF Len(src) < 2 \/ src[2] \in {"newline", "cr"}
         THEN [ok |-> FALSE, val |-> <<>>]
         ELSE LET rest == JsString(SubSeq(src, 3, Len(src)))
                  c == IF src[2] = "n" THEN "newline" ELSE src[2]
              IN [ok |-> rest.ok, val |-> <<c>> \o rest.val]
    ELSE LET rest == JsString(Tail(src))
         IN [ok |-> rest.ok, val |-> <<Head(src)>> \o rest.val]

\* the names _inject_token looks up for a family
InjectTargets(kind) ==
    CASE kind = "hcaptcha" -> {"h-captcha-response", "g-recaptcha-response"}
      [] kind = "turnstile" -> {"cf-turnstile-response"}
      [] kind = "recaptcha" -> {"g-recaptcha-response"}
      [] OTHER -> {}

\* "if (el) { el.value = '<token>'; }" for each name of the family
Injected(pg, kind, val) ==
    [pg EXCEPT !.value = [f \in ResponseFields |->
                            IF f \in pg.fields \cap InjectTargets(kind)
                            THEN val ELSE pg.value[f]]]

\* variant: a ValueError is retried like any other error
AfterSolveError_RetriesAll(l, err) ==
    IF RetryAgain(l.attempt)
    THEN [l EXCEPT !.step = "sleep"]
    ELSE [l EXCEPT !.status = "raised", !.error = "RuntimeError"]

\* _solve_remote: "except ValueError: raise", "except Exception": sleep
\* before the next attempt, RuntimeError after the last one
AfterSolveError(l, err) ==
    IF err = "ValueError"
    THEN [l EXCEPT !.status = "raised", !.error = "ValueError"]
    ELSE IF RetryAgain(l.attempt)
    THEN [l EXCEPT !.step = "sleep"]
    ELSE [l EXCEPT !.status = "raised", !.error = "RuntimeError"]

\* the top of one pass of "for attempt in range(1, MAX_SOLVE_RETRIES + 1)":
\* the strategy of the kind is called, a kind without one raises ValueError
AttemptTop(l, kind) ==
    IF kind \in Families THEN [l EXCEPT !.step = "call"]
    ELSE AfterSolveError(l, "ValueError")

\* the sleeps the handler has started
SleepsAfter(tr, l) == IF l.step = "sleep" THEN Append(tr, "sleep") ELSE tr

SolveStart(entry) ==
    [status |-> "pending", entry |-> entry, step |-> "entry", attempt |-> 1,
     token |-> <<>>, error |-> "none"]

SolveInit ==
    /\ Parked /\ StoreInit
    /\ page \in [kind : Kinds \cup {"none"}, fields : SUBSET ResponseFields,
                 value : {[f \in ResponseFields |-> <<>>]}]
    /\ \E entry \in {"detect_and_solve", "_solve_remote"} :
         /\ ret = SolveStart(entry)
         /\ entry = "detect_and_solve" => page.kind \in Families \cup {"none"}
         /\ entry = "_solve_remote" => page.kind \in Kinds
    /\ trace = <<>>

SolveAt(step) == ret.status = "pending" /\ ret.step = step

\* detect_and_solve: _detect is over; None returns None, a family goes on
\* to the first attempt of _solve_remote
SolveDetected ==
    /\ SolveAt("entry") /\ ret.entry = "detect_and_solve"
    /\ \E r \in {"ok", "raise"} :
         LET l == IF r = "raise"
                  THEN [ret EXCEPT !.status = "raised", !.error = "page"]
                  ELSE IF page.kind = "none"
                  THEN [ret EXCEPT !.status = "returned"]
                  ELSE AttemptTop(ret, page.kind)
         IN ret' = l /\ trace' = SleepsAfter(trace, l)
    /\ UNCHANGED <<monitorv, storev, page>>

\* _solve_remote is called: the first pass of the loop up to its await
SolveEntered ==
    /\ SolveAt("entry") /\ ret.entry = "_solve_remote"
    /\ LET l == AttemptTop(ret, page.kind)
       IN ret' = l /\ trace' = SleepsAfter(trace, l)
    /\ UNCHANGED <<monitorv, storev, page>>

\* the call of the solving service of this attempt is over
SolveServiceCall ==
    /\ SolveAt("call")
    /\ \E r \in {"code", "error", "ValueError"} :
         IF r = "code"
         THEN \E tok \in Tokens :
                /\ ret' = IF ret.entry = "_solve_remote"
                          THEN [ret EXCEPT !.status = "returned", !.token = tok]
                          ELSE [ret EXCEPT !.step = "inject", !.token = tok]
                /\ trace' = Append(trace, "service")
         ELSE LET l == AfterSolveError(ret, r)
              IN ret' = l /\ trace' = SleepsAfter(Append(trace, "service"), l)
    /\ UNCHANGED <<monitorv, storev, page>>

\* "await asyncio.sleep(SOLVE_RETRY_DELAY)" is over: the next pass
SolveSlept ==
    /\ SolveAt("sleep")
    /\ LET l == AttemptTop([ret EXCEPT !.attempt = @ + 1], page.kind)
       IN ret' = l /\ trace' = SleepsAfter(trace, l)
    /\ UNCHANGED <<monitorv, storev, page>>

\* _inject_token: page.evaluate of the script with the escaped token in it
SolveInjected ==
    /\ SolveAt("inject")
    /\ LET js == JsString(Escape(ret.token))
       IN /\ trace' = Append(trace, "evaluate")
          /\ IF js.ok
             THEN /\ page' = Injected(page, page.kind, js.val)
                  /\ ret' = [ret EXCEPT !.status = "returned"]
             ELSE /\ page' = page
                  /\ ret' = [ret EXCEPT !.status = "raised", !.error = "page"]
    /\ UNCHANGED <<monitorv, storev>>

SolveNext ==
    SolveDetected \/ SolveEntered \/ SolveServiceCall \/ SolveSlept
      \/ SolveInjected

SolveSpec == SolveInit /\ [][SolveNext]_vars

-----------------------------------------------------------------------------
(* The consent step of Authenticator.login on its own.  page.boxes is what   *)
(* input[type="checkbox"] matches on the login form, in document order:    *)
(* each box is visible or not and is the consent box or another one.       *)

MaxBoxes == 3

Checkboxes == [visible : BOOLEAN, consent : BOOLEAN]

\* page.locator('input[type="checkbox"]').first: the first match in the
\* document, 0 when nothing matches
FirstCheckbox(boxes) == IF boxes = <<>> THEN 0 ELSE 1

\* checkbox.is_visible(): False for a locator that matches nothing
IsVisible(boxes, n) == n # 0 /\ boxes[n].visible

ConsentStart == [status |-> "pending", step |-> "probe"]

ConsentInit ==
    /\ Parked /\ StoreInit
    /\ page \in [boxes : UNION {[1..n -> Checkboxes] : n \in 0..MaxBoxes}]
    /\ ret = ConsentStart
    /\ trace = <<>>

ConsentAt(step) == ret.status = "pending" /\ ret.step = step

\* if await checkbox.is_visible()
ConsentProbe ==
    /\ ConsentAt("probe")
    /\ ret' = [ret EXCEPT !.step =
                 IF IsVisible(page.boxes, FirstCheckbox(page.boxes))
                 THEN "check" ELSE "verify"]
    /\ UNCHANGED <<monitorv, storev, page, trace>>

\* await checkbox.check(), which may raise, and the delay after it
ConsentCheck ==
    /\ ConsentAt("check")
    /\ \E r \in {"ok", "raise"} :
         IF r = "ok"
         THEN /\ trace' = Append(trace, FirstCheckbox(page.boxes))
              /\ ret' = [ret EXCEPT !.step = "verify"]
         ELSE /\ trace' = trace
              /\ ret' = [ret EXCEPT !.status = "raised"]
    /\ UNCHANGED <<monitorv, storev, page>>

\* the Verify button is clicked: the consent step is behind
ConsentVerify ==
    /\ ConsentAt("verify")
    /\ ret' = [ret EXCEPT !.status = "verify_clicked"]
    /\ UNCHANGED <<monitorv, storev, page, trace>>

ConsentNext == ConsentProbe \/ ConsentCheck \/ ConsentVerify

ConsentSpec == ConsentInit /\ [][ConsentNext]_vars

-----------------------------------------------------------------------------
(* FormFiller._fill_radio step by step, inside the loop of fill_form.  The  *)
(* form shows the six field labels in any order; page.dialog tells whether  *)
(* the element the confirm locator resolves to becomes visible within the   *)
(* five seconds of wait_for.  A dropdown is filled in one step.             *)

\* a wait_for whose timeout is not caught
AfterWait_Raising(l, dialog) ==
    IF dialog = "visible" THEN [l EXCEPT !.step = "confirm"]
    ELSE [l EXCEPT !.status = "page_error"]

\* "try: await confirm_btn.wait_for(state='visible', timeout=5000)": on to
\* the click, or the timeout is caught, a warning logged, and the routine
\* goes on to its last delay
AfterWait(l, dialog) ==
    IF dialog = "visible" THEN [l EXCEPT !.step = "confirm"]
    ELSE [l EXCEPT !.step = "after"]

PopupInit ==
    /\ Parked /\ StoreInit
    /\ page \in [labels : Orders(FieldLabels), dialog : {"visible", "absent"}]
    /\ ret = [FillStart EXCEPT !.step = "loop"]
    /\ trace = <<>>

PopupFrame == UNCHANGED <<monitorv, storev, page>>

\* one pass of the loop of fill_form up to the first await of _fill_radio:
\* a dropdown is filled, or the radio label is clicked
PopupLabel ==
    /\ FillAt("loop")
    /\ LET key == MatchedKey(page.labels[ret.i])
           next == [ret EXCEPT !.i = @ + 1]
       IN \E r \in {"ok", "raise"} :
            IF r = "raise"
            THEN trace' = trace /\ ret' = [ret EXCEPT !.status = "page_error"]
            ELSE IF SkipLabel(key, ret.filled)
            THEN trace' = trace /\ ret' = LoopEnd(next, page.labels)
            ELSE IF FIELD_DEFS[key].type = "dropdown"
            THEN /\ trace' = Append(trace, [op |-> "dropdown", field |-> key])
                 /\ ret' = LoopEnd([next EXCEPT !.filled = @ \cup {key}],
                                   page.labels)
            ELSE /\ trace' = Append(trace, [op |-> "radio_click", field |-> key])
                 /\ ret' = [ret EXCEPT !.step = IF FIELD_DEFS[key].has_popup
                                                THEN "wait" ELSE "after"]
    /\ PopupFrame

\* the delay and the bounded wait for the confirm button
PopupWait ==
    /\ FillAt("wait")
    /\ ret' = AfterWait(ret, page.dialog)
    /\ trace' = IF page.dialog = "visible" THEN trace
                ELSE Append(trace, [op |-> "timeout", field |-> 0])
    /\ PopupFrame

\* click_with_delay(confirm_btn), inside the same try: an exception of the
\* click is caught as the timeout is
PopupConfirm ==
    /\ FillAt("confirm")
    /\ \E r \in {"ok", "raise"} :
         trace' = Append(trace, [op |-> IF r = "ok" THEN "confirm_click"
                                        ELSE "confirm_failed",
                                 field |-> 0])
    /\ ret' = [ret EXCEPT !.step = "after"]
    /\ PopupFrame

\* the last delay of _fill_radio; back in fill_form the field is noted as
\* filled and the loop goes on
PopupReturn ==
    /\ FillAt("after")
    /\ ret' = LoopEnd([ret EXCEPT !.step = "loop", !.i = @ + 1,
                                  !.filled = @ \cup
                                      {MatchedKey(page.labels[ret.i])}],
                      page.labels)
    /\ trace' = trace
    /\ PopupFrame

PopupNext == PopupLabel \/ PopupWait \/ PopupConfirm \/ PopupReturn

PopupSpec == PopupInit /\ [][PopupNext]_vars

-----------------------------------------------------------------------------
(* FormFiller._fill_dropdown on its own, called by fill_form for the label *)
(* of the field page.target.  page.selects are the <select> elements of    *)
(* the form in document order, each by the field it belongs to and by what *)
(* its options offer for the configured value: an option whose label is    *)
(* the value (exact), one whose text only contains it (partial), or none.  *)

MaxSelects == 3

DropdownFields == {f \in FieldIds : FIELD_DEFS[f].type = "dropdown"}

SelectElems == [field : DropdownFields, opt : {"none", "partial", "exact"}]

\* forms of one to MaxSelects selects of different fields, the target's
\* among them; the label carries a 'for' attribute or not
SelectPages ==
    {pg \in [selects : UNION {[1..n -> SelectElems] : n \in 1..MaxSelects},
             target : DropdownFields,
             has_for : BOOLEAN] :
        /\ \A m, n \in 1..Len(pg.selects) :
              pg.selects[m].field = pg.selects[n].field => m = n
        /\ \E n \in 1..Len(pg.selects) : pg.selects[n].field = pg.target}

\* the select the locator of the exact path resolves to: #<for> when the
\* label has the attribute, else page.locator("select").first
SelectLoc(pg) ==
    IF pg.has_for
    THEN CHOOSE n \in 1..Len(pg.selects) : pg.selects[n].field = pg.target
    ELSE 1

\* the script of the fallback: the first select of the document that has an
\* option whose text includes the value, 0 for none
FirstWithOption(selects) ==
    FirstIndex({n \in 1..Len(selects) : selects[n].opt # "none"})

SelectInit ==
    /\ Parked /\ StoreInit
    /\ page \in SelectPages
    /\ ret = [status |-> "pending", step |-> "select_option"]
    /\ trace = <<>>

SelectAt(step) == ret.status = "pending" /\ ret.step = step

SelectFrame == UNCHANGED <<monitorv, storev, page>>

\* "await select_loc.select_option(label=value)": the option is chosen, or
\* the call raises (always so without an option of that label)
SelectOption ==
    /\ SelectAt("select_option")
    /\ LET n == SelectLoc(page)
       IN \E r \in IF page.selects[n].opt = "exact" THEN {"ok", "raise"}
                   ELSE {"raise"} :
            IF r = "ok"
            THEN /\ trace' = Append(trace, [op |-> "select_option",
                                            field |-> page.selects[n].field])
                 /\ ret' = [ret EXCEPT !.step = IF page.has_for THEN "change"
                                                ELSE "delay"]
            ELSE /\ trace' = trace
                 /\ ret' = [ret EXCEPT !.step = "fallback"]
    /\ SelectFrame

\* "except Exception": the script sets the value of the first select with a
\* matching option, or raises
SelectFallback ==
    /\ SelectAt("fallback")
    /\ LET n == FirstWithOption(page.selects)
       IN \E r \in {"ok", "raise"} :
            IF r = "raise"
            THEN trace' = trace /\ ret' = [ret EXCEPT !.status = "raised"]
            ELSE /\ trace' = IF n = 0 THEN trace
                             ELSE Append(trace, [op |-> "script",
                                                 field |-> page.selects[n].field])
                 /\ ret' = [ret EXCEPT !.step = IF page.has_for THEN "change"
                                                ELSE "delay"]
    /\ SelectFrame

\* "if for_attr": the change event is dispatched on the element of the label
SelectChange ==
    /\ SelectAt("change")
    /\ \E r \in {"ok", "raise"} :
         ret' = IF r = "ok" THEN [ret EXCEPT !.step = "delay"]
                ELSE [ret EXCEPT !.status = "raised"]
    /\ trace' = trace
    /\ SelectFrame

\* the last delay: _fill_dropdown returns
SelectDelay ==
    /\ SelectAt("delay")
    /\ ret' = [ret EXCEPT !.status = "returned"]
    /\ trace' = trace
    /\ SelectFrame

SelectNext == SelectOption \/ SelectFallback \/ SelectChange \/ SelectDelay

SelectSpec == SelectInit /\ [][SelectNext]_vars

-----------------------------------------------------------------------------
(* Properties of the monitor loop *)

\* a step in which check_once returns to Monitor.run without raising
Returned == pc = "checking" /\ pc' # "checking" /\ last_exc' = "none"

\* a step in which an exception leaves check_once
Raised == pc = "checking" /\ pc' # "checking" /\ last_exc' # "none"

\* the third solving-service call of one challenge fails
ThirdCallFailed ==
    /\ pc = "checking" /\ stage = "solve"
    /\ loc.attempt = MAX_SOLVE_RETRIES
    /\ stage' \notin {"solve", "inject"}

InSolveRemote == stage \in {"solve", "solve_sleep"}

\* C1: whenever check_once returns without raising, consecutive_errors is 0
\* right after the return, whatever it was before and whatever the result.
C1_ResetOnSuccess ==
    [][Returned => /\ consecutive_errors' = 0
                   /\ total_checks' = total_checks + 1]_vars

C1_Witness ==
    /\ pc = "pause" /\ total_checks > 0 /\ consecutive_errors = 0
    /\ outbox # <<>> /\ outbox[Len(outbox)] = "slot_alert"

\* C2: consecutive_errors never exceeds max_retries, and while it equals
\* max_retries the loop is in the failure handling that alerts and cools
\* down, so no cycle can increment it further.
C2_CounterBounded ==
    /\ consecutive_errors <= max_retries
    /\ consecutive_errors = max_retries => pc \in {"closing", "cooldown"}

C2_Witness ==
    /\ max_retries = 3 /\ consecutive_errors = max_retries /\ pc = "cooldown"

\* C3: the failure that brings the counter to max_retries sends exactly one
\* operator alert and starts the cool-down; the counter is reset only when
\* the cool-down is over and no cycle starts in between; a failure that
\* leaves the counter below max_retries sends no alert.
C3_AlertThenCooldownThenReset ==
    /\ [](/\ Count(outbox, "alert") <= 1
          /\ pc = "cooldown" =>
                /\ Count(outbox, "alert") = 1
                /\ consecutive_errors = max_retries
                /\ stage = "idle"
          /\ (consecutive_errors > 0 /\ consecutive_errors < max_retries) =>
                Count(outbox, "alert") = 0)
    /\ [][/\ Count(outbox', "alert") > Count(outbox, "alert") =>
                /\ pc' = "cooldown"
                /\ consecutive_errors' = max_retries
          /\ (pc = "cooldown" /\ pc' # "cooldown") =>
                /\ consecutive_errors' = 0
                /\ pc' \in {"wait", "done"}
          /\ (pc = "cooldown" /\ pc' = "cooldown") =>
                consecutive_errors' = consecutive_errors
          /\ (consecutive_errors = max_retries /\ consecutive_errors' # max_retries)
                => pc = "cooldown"]_vars

C3_Witness ==
    /\ pc = "wait" /\ consecutive_errors = 0 /\ last_exc # "none"
    /\ Count(outbox, "alert") = 1 /\ max_retries > 1

\* C4: when the solving service fails on all three attempts, the exception
\* leaves check_once, Monitor.run handles it, and the counter grows by exactly
\* one for the cycle: no step inside the cycle or in the close that follows
\* changes it.
C4_SolveFailureCountsOnce ==
    [][/\ ThirdCallFailed =>
             /\ Raised
             /\ last_exc' \in {"solve_failed", "value_error"}
             /\ stage' = "idle"
             /\ consecutive_errors' = consecutive_errors + 1
       /\ (pc = "checking" /\ pc' = "checking") =>
             consecutive_errors' = consecutive_errors
       /\ pc = "closing" => consecutive_errors' = consecutive_errors]_vars

C4_Witness ==
    /\ last_exc = "solve_failed" /\ pc = "closing" /\ consecutive_errors = 1

\* C5: _solve_remote ends; it calls the service at most MAX_SOLVE_RETRIES
\* times, hands back the code of the first call that succeeds and calls no
\* more, raises when the last call fails, and sleeps only before a further
\* attempt.
C5_SolveRemoteBounded ==
    /\ [](InSolveRemote => loc.attempt \in 1..MAX_SOLVE_RETRIES)
    /\ [](stage = "solve_sleep" => loc.attempt < MAX_SOLVE_RETRIES)
    /\ [][/\ (stage = "solve" /\ stage' = "inject") =>
                /\ loc'.token \in Codes
                /\ loc'.attempt = loc.attempt
          /\ stage = "inject" => ~InSolveRemote'
          /\ (stage = "solve_sleep" /\ stage' # "solve_sleep") =>
                /\ stage' = "solve"
                /\ loc'.attempt = loc.attempt + 1
          /\ ThirdCallFailed => Raised
          /\ (pc = "checking" /\ last_exc' = "solve_failed") => ThirdCallFailed]_vars
    /\ (InSolveRemote ~> ~InSolveRemote)

C5_Witness ==
    /\ stage = "inject" /\ loc.attempt = MAX_SOLVE_RETRIES /\ loc.token \in Codes

\* C6: an exception raised anywhere in a cycle is handled by Monitor.run;
\* the task never dies of it, the loop ends only on shutdown, and after a
\* failed cycle either the next cycle starts or shutdown was requested.
C6_ExceptionsCaught ==
    /\ [](pc # "crashed")
    /\ [](pc \in {"closing_final", "done"} => shutdown)
    /\ [][last_exc' # last_exc /\ last_exc' # "none" =>
             pc' \in {"closing", "cooldown", "wait", "closing_final", "done"}]_vars
    /\ (last_exc # "none" ~> (pc = "launching" \/ shutdown))

C6_Witness ==
    /\ last_exc = "launch" /\ pc = "wait" /\ ~shutdown

\* C7: after a failed cycle the browser is closed if there is one, browser
\* and checker are None before the next cycle, and that cycle creates the
\* components anew and logs in fully: the home-page probe runs only with an
\* Authenticator that has logged in.
C7_FreshSessionAfterFailure ==
    /\ []((last_exc # "none" /\ pc \in {"cooldown", "wait"}) =>
             (browser = "none" /\ checker = "none"))
    /\ [](stage = "probe" => last_login # 0)
    /\ [][/\ (Raised /\ browser = "live") => pc' = "closing"
          /\ (pc = "wait" /\ last_exc # "none" /\ pc' # "wait") =>
                pc' \in {"launching", "done"}
          /\ (pc = "launching" /\ pc' = "checking") =>
                /\ browser' = "live" /\ checker' = "set"
                /\ last_login' = 0
                /\ stage' = "login_goto"]_vars

C7_Witness ==
    /\ pc = "checking" /\ stage = "login_goto" /\ consecutive_errors > 0

\* C8: check_once is in progress only while Monitor.run is parked on it, it
\* is started only from the top of an iteration with no check_once in
\* progress, and a signal changes nothing but the flag.
C8_OneCycleAtATime ==
    /\ [](stage # "idle" <=> pc = "checking")
    /\ [][/\ (stage = "idle" /\ stage' # "idle") => pc \in {"wait", "launching"}
          /\ shutdown' # shutdown =>
                (pc' = pc /\ stage' = stage /\ loc' = loc)]_vars

C8_Witness ==
    /\ pc = "checking" /\ stage = "fill_form" /\ shutdown

\* C9: with the shutdown flag set no new cycle is entered: every entry into
\* a cycle (component creation or check_once) from outside one happens with
\* the flag clear, and check_once is called with the flag set only to go on
\* with the cycle whose component creation the signal interrupted.
C9_NoCycleAfterShutdown ==
    [][/\ (pc \notin {"launching", "checking"} /\ pc' \in {"launching", "checking"})
             => ~shutdown
       /\ (shutdown /\ pc \in {"wait", "cooldown", "pause", "closing"})
             => pc' \in {pc, "wait", "cooldown", "closing_final", "done"}
       /\ (shutdown /\ stage = "idle" /\ stage' # "idle") => pc = "launching"]_vars

C9_Witness ==
    /\ pc = "done" /\ shutdown /\ outbox = <<"stopped">> /\ total_checks > 0

\* C10: after a shutdown signal Monitor.run reaches its end; the browser is
\* closed first if there is one, then the final status is sent, exactly
\* once, also when closing failed.
C10_GracefulShutdown ==
    /\ [](pc = "done" =>
             /\ Count(outbox, "stopped") = 1
             /\ outbox[Len(outbox)] = "stopped"
             /\ browser \in {"none", "closed", "close_failed"})
    /\ [](pc # "done" => Count(outbox, "stopped") = 0)
    /\ [](pc = "closing_final" => browser = "live")
    /\ [][(pc = "closing_final" /\ pc' # "closing_final") =>
             /\ pc' = "done"
             /\ browser' \in {"closed", "close_failed"}
             /\ outbox' = Append(outbox, "stopped")]_vars
    /\ (shutdown ~> pc = "done")

C10_Witness ==
    /\ pc = "done" /\ browser = "close_failed" /\ Count(outbox, "stopped") = 1

-----------------------------------------------------------------------------
(* Properties of the evidence store *)

\* the n files of highest modification time
MostRecent(files, n) ==
    {f \in files : Cardinality({g \in files : g > f}) < n}

\* the files the latest rotation found in the directory
BeforeRotation == shots \cup rotation.removed

-----------------------------------------------------------------------------
(* Properties of the result classification *)

HasNegative(body) ==
    \E i \in 1..Len(no_slot_signals) : Contains(Lower(body), no_slot_signals[i])

HasPositive(body) ==
    \E i \in 1..Len(slot_signals) : Contains(Lower(body), slot_signals[i])

\* C13: for every page text submit_and_check classifies, the result is False
\* exactly when the lower-cased text contains a negative phrase: a negative
\* and a positive phrase together give False, a positive phrase alone gives
\* True, and a text with neither gives True.
C13_NegativeFirst ==
    ret \in {"True", "False"} =>
       /\ ret = "False" <=> HasNegative(page.body)
       /\ (HasNegative(page.body) /\ HasPositive(page.body)) => ret = "False"
       /\ (HasPositive(page.body) /\ ~HasNegative(page.body)) => ret = "True"
       /\ (~HasPositive(page.body) /\ ~HasNegative(page.body)) => ret = "True"

\* a page in mixed case with a positive and a negative phrase is classified
C13_Witness ==
    /\ ret = "False"
    /\ page.body = <<"Select", "Date", "No", "Appointments", "Available">>
    /\ HasPositive(page.body)
    /\ trace = <<"click_submit", "inner_text">>

-----------------------------------------------------------------------------
(* Properties of the captcha detection *)

DetectReturned == ret.ctype \notin {"pending", "raised"}

FamilyOf(cls) ==
    CASE cls = "h-captcha" -> "hcaptcha"
      [] cls = "cf-turnstile" -> "turnstile"
      [] cls = "g-recaptcha" -> "recaptcha"

\* the frames holding an element with a data-sitekey attribute
SitekeyFrames == {f \in 1..Len(page.frames) : Len(page.frames[f]) > 0}

FirstSitekeyFrame == CHOOSE f \in SitekeyFrames : \A g \in SitekeyFrames : f <= g

\* the elements of frame f that carry a widget family's class
MarkersIn(f) ==
    {i \in 1..Len(page.frames[f]) : page.frames[f][i] \in MarkerClasses}

\* C14 as stated: with a known widget marker in some frame, _detect returns
\* the family and sitekey of such a marker; with no marker in any frame or in
\* the markup, it returns (None, None).
C14_MarkerFamilyOrNone ==
    DetectReturned =>
       /\ (\E f \in SitekeyFrames : MarkersIn(f) # {}) =>
             \E f \in SitekeyFrames : \E i \in MarkersIn(f) :
                ret = [ctype |-> FamilyOf(page.frames[f][i]),
                       sitekey |-> <<f, i>>]
       /\ ((\A f \in SitekeyFrames : MarkersIn(f) = {}) /\ page.html.hints = {})
             => ret = NoneNone

\* C14, amended: _detect answers from the first frame, the main one first,
\* that holds an element with data-sitekey.  If that frame holds a known
\* marker, the family and sitekey of a marker of that frame are returned;
\* if not, its first data-sitekey element is returned as hcaptcha (turnstile
\* when its class attribute contains cf-turnstile).  With no such element in
\* any frame the markup decides: the regex's key with a family named in the
\* markup, hcaptcha when none is named, and (None, None) when the regex
\* finds no key.
C14_FirstSitekeyElement ==
    DetectReturned =>
       IF SitekeyFrames # {}
       THEN LET f == FirstSitekeyFrame
            IN IF MarkersIn(f) # {}
               THEN \E i \in MarkersIn(f) :
                       ret = [ctype |-> FamilyOf(page.frames[f][i]),
                              sitekey |-> <<f, i>>]
               ELSE /\ ret.sitekey = <<f, 1>>
                    /\ ret.ctype = IF page.frames[f][1] = "cf-turnstile-box"
                                   THEN "turnstile" ELSE "hcaptcha"
       ELSE IF page.html.match
       THEN /\ ret.sitekey = <<0, 0>>
            /\ IF page.html.hints = {}
               THEN ret.ctype = "hcaptcha"
               ELSE \E h \in page.html.hints : ret.ctype = FamilyOf(h)
       ELSE ret = NoneNone

\* an unmarked data-sitekey element in the main frame is returned as hcaptcha
\* although the only known marker, in the child frame, is a Turnstile one
C14_Witness ==
    /\ page.frames = << <<"plain">>, <<"cf-turnstile">> >>
    /\ ret = [ctype |-> "hcaptcha", sitekey |-> <<1, 1>>]

\* C15: detection is an ordered fallback returning the first match.  A child
\* frame is consulted only when the main frame has no match, the markup only
\* when no frame has one, and a returned match comes from the first frame
\* that has one, so the main frame wins over every child frame.
C15_OrderedFallback ==
    /\ \A i \in 1..Len(trace) :
          /\ trace[i] >= 2 => Len(page.frames[1]) = 0
          /\ trace[i] >= 2 => \A g \in 1..(trace[i] - 1) : g \notin SitekeyFrames
          /\ trace[i] = 0 => SitekeyFrames = {}
    /\ (DetectReturned /\ SitekeyFrames # {}) =>
          /\ ret.sitekey[1] = FirstSitekeyFrame
          /\ ret = DetectInFrame(page.frames[FirstSitekeyFrame], FirstSitekeyFrame)
    /\ (DetectReturned /\ SitekeyFrames = {}) => ret = DetectFromHtml(page.html)

\* both frames hold a marker and the markup matches too: the main one wins
C15_Witness ==
    /\ page.frames = << <<"g-recaptcha">>, <<"h-captcha">> >>
    /\ page.html.match
    /\ ret = [ctype |-> "recaptcha", sitekey |-> <<1, 1>>]
    /\ trace = <<1>>

-----------------------------------------------------------------------------
(* Properties of the grid captcha solver *)

\* the cells the trace shows an operation on
CellsOf(op) == {trace[n].cell : n \in {m \in 1..Len(trace) : trace[m].op = op}}

Candidates == {ret.cells[n] : n \in 1..Len(ret.cells)}

\* the candidates whose recognized value is the target
MatchingCells ==
    {c \in Candidates :
        Recognizable(page.cells[c]) /\ page.cells[c].val = ret.target}

C17_ClicksAreMatches ==
    /\ CellsOf("click") \subseteq MatchingCells
    /\ CellsOf("submit") # {} => CellsOf("click") = MatchingCells
    /\ ret.status = "True" =>
          /\ CellsOf("click") = MatchingCells
          /\ MatchingCells # {}
          /\ trace[Len(trace)].op = "submit"
    /\ (ret.status = "False" /\ ret.cells # <<>>) => MatchingCells = {}
    /\ (ret.step \in {"click", "submit"} \/ ret.status = "True") =>
          MatchingCells # {}
    /\ ret.status = "False" => CellsOf("click") \cup CellsOf("submit") = {}

\* a solve that clicked one of two recognized cells and submitted
C17_Witness ==
    /\ ret.status = "True"
    /\ Cardinality(CellsOf("recognize")) = 2
    /\ Cardinality(CellsOf("click")) = 1

\* C18 as stated: whenever a target has been extracted, the label it was
\* taken from passes the visibility check.
C18_TargetFromVisibleLabel ==
    ret.target # 0 => page.labels[ret.label].visible

-----------------------------------------------------------------------------
(* Properties of the credential entry *)

\* C19: every click, clear and keystroke of the credential entry lands on an
\* input that is visible when the action is performed and whose name starts
\* with the prefix asked for; no hidden decoy is clicked or written to,
\* however many there are and wherever they stand in the document.
C19_OnlyVisibleInputs ==
    \A n \in 1..Len(trace) :
       /\ trace[n].shown
       /\ trace[n].name = ret.prefix
       /\ trace[n].op \in {"click", "fill", "press"}

\* the last keystroke went to the second input while a hidden decoy of the
\* same prefix stands before it in the document
C19_Witness ==
    /\ ret.status = "returned"
    /\ Len(trace) = 1
    /\ trace[1].op = "press"
    /\ trace[1].input = 2
    /\ page.inputs[1].prefix = ret.prefix
    /\ ~page.inputs[1].visible

-----------------------------------------------------------------------------
(* Properties of the edge challenge handling *)

\* C20: once the indicator, present at page load, has gone away while the
\* polling loop still has one of its 15 polls to make, _handle_cloudflare
\* does nothing but that poll: it has not called detect_and_solve, contacted
\* the solving service or reloaded the page, it does not go on to the
\* Turnstile query, and when it returns login is at the credential entry
\* (a poll that raises ends the login instead).
C20_ClearsWithoutSolving ==
    /\ [](page.cleared =>
            /\ trace = <<>>
            /\ ret.polls < CF_POLLS
            /\ ret.step = "poll"
            /\ ret.status \in {"pending", "credentials", "raised"})
    /\ [][(page.cleared /\ ret' # ret) =>
            /\ ret'.status \in {"credentials", "raised"}
            /\ ret'.polls = ret.polls]_vars

\* the indicator went away after 14 polls saw it, and the 15th returned
C20_Witness ==
    /\ page.cleared
    /\ ret.polls = CF_POLLS - 1
    /\ ret.status = "credentials"

\* positions of an operation in the trace of a component call
Positions(op) == {i \in 1..Len(trace) : trace[i] = op}

\* C21: _handle_cloudflare escalates in order and within bounds: the widget
\* is only resolved after all 15 polls saw the indicator and a .cf-turnstile
\* element exists, the submit click follows the resolution, the page is
\* reloaded at most once and nothing follows the reload; the handler returns
\* normally only when its last test saw no indicator, and when the indicator
\* is still there after the reload it raises.
C21_OrderedBoundedEscalation ==
    /\ Cardinality(Positions("reload")) <= 1
    /\ Cardinality(Positions("detect_and_solve")) <= 1
    /\ trace # <<>> => ret.polls = CF_POLLS
    /\ Positions("detect_and_solve") # {} =>
         page.turnstile /\ trace[1] = "detect_and_solve"
    /\ \A i \in Positions("service") \cup Positions("submit") :
         \E j \in Positions("detect_and_solve") : j < i
    /\ \A i \in Positions("reload") : i = Len(trace)
    /\ ret.status = "credentials" => ~page.cf
    /\ (ret.step = "reload" /\ ret.status # "pending") =>
         (ret.status = "raised" <=> page.cf)

\* the widget was resolved and the form resubmitted, the indicator stayed,
\* the page was reloaded and the indicator was still there: the call raised
C21_Witness ==
    /\ trace = <<"detect_and_solve", "service", "submit", "reload">>
    /\ ret.step = "reload"
    /\ ret.status = "raised"
    /\ page.cf

-----------------------------------------------------------------------------
(* Properties of ensure_authenticated *)

\* no login has succeeded on this Authenticator, or the session is too old
NeedsFullLogin ==
    page.last = 0 \/ page.elapsed >= session_refresh_interval

\* the lower-cased URL holds "login"
EndsOnLogin ==
    \E i \in 1..Len(page.url) :
       page.url[i] \in {"login", "Login", "LogIn", "relogin"}

\* C22: ensure_authenticated logs in at once when no login has succeeded or
\* the session age is at least session_refresh_interval; otherwise it only
\* probes the home page, and logs in if and only if the probe ended on the
\* login surface; when the probe was not redirected there is no login and no
\* solving-service call; login is called at most once.
C22_LoginOrProbe ==
    /\ ret.step # "entry" =>
         trace[1] = (IF NeedsFullLogin THEN "login" ELSE "goto_home")
    /\ Cardinality(Positions("login")) <= 1
    /\ Cardinality(Positions("goto_home")) <= 1
    /\ (ret.status = "returned" /\ ~NeedsFullLogin) =>
         /\ Positions("login") # {} <=> EndsOnLogin
         /\ ~EndsOnLogin => trace = <<"goto_home">>
    /\ (ret.step = "probe" /\ ret.status = "raised") => trace = <<"goto_home">>
    /\ Positions("service") # {} => Positions("login") # {}

\* a session one second short of the interval, the probe stayed on the home
\* page: the call returned after the probe alone
C22_Witness ==
    /\ page.last # 0
    /\ page.elapsed = session_refresh_interval - 1
    /\ ~EndsOnLogin
    /\ ret.status = "returned"
    /\ trace = <<"goto_home">>

-----------------------------------------------------------------------------
(* Properties of the session stamp *)

\* the awaits of login and of the calls it makes
InLogin ==
    \/ stage \in {"login_goto", "cf_poll", "cf_query", "cf_submit",
                  "cf_reload", "credentials", "popup_wait", "popup_rest",
                  "submit_wait", "url_wait"}
    \/ (stage \in {"detect", "solve", "solve_sleep", "inject"}
          /\ loc.ctx \in {"cf", "popup"})

\* C23: _last_login_time is set only by the step in which login ends in
\* success (the wait after the Login click is over and nothing was raised);
\* a login that ends in an error leaves it as it was, and the cycle after a
\* failed one never starts with the probe of an existing session: the probe
\* only follows an iteration that raised nothing.
C23_StampOnlyOnSuccess ==
    [][/\ (last_login' # last_login /\ last_login' # 0) =>
            (AtStage("url_wait") /\ stage' = "nav_form" /\ last_exc' = "none")
       /\ (Raised /\ InLogin) => last_login' = last_login
       /\ (stage = "idle" /\ stage' = "probe") =>
            (last_exc = "none" /\ last_login # 0 /\ browser = "live")]_vars

\* a login that stayed on the login URL: nothing stamped, components gone
C23_Witness ==
    /\ last_exc = "login_failed"
    /\ last_login = 0
    /\ pc = "wait"
    /\ browser = "none"

-----------------------------------------------------------------------------
(* Properties of login from the Verify click on *)

\* the wait after the Login click is over
UrlWaitOver == ret.step = "url" /\ ret.status # "pending"

\* the final URL has the landing path /home/
OnLanding ==
    \E i \in 1..(Len(page.final) - 1) : page.final[i] = "home"

\* the final URL, lower-cased, holds "login"
StillOnLogin ==
    \E i \in 1..Len(page.final) :
       page.final[i] \in {"login", "Login", "LogIn", "relogin"}

\* C24: when the wait after the Login click is over, login has raised if the
\* page is still on the login URL; it has returned with the session stamped
\* and a warning logged if the page left the login URL without reaching the
\* landing path; it has returned with the session stamped and no warning if
\* the landing path was reached.  The session is stamped in no other way.
C24_TerminalOutcomes ==
    /\ UrlWaitOver =>
         CASE OnLanding ->
                /\ ret.status = "returned" /\ ret.stamped
                /\ Positions("warning") = {}
           [] StillOnLogin ->
                /\ ret.status = "raised" /\ ~ret.stamped
                /\ Positions("warning") = {}
           [] OTHER ->
                /\ ret.status = "returned" /\ ret.stamped
                /\ Cardinality(Positions("warning")) = 1
    /\ ret.stamped => (UrlWaitOver /\ ret.status = "returned")
    /\ ret.status = "returned" => ret.stamped

\* the page left the login URL for a path that is not the landing path
C24_Witness ==
    /\ UrlWaitOver
    /\ page.final = <<"Global", "profile", "edit">>
    /\ ret.status = "returned" /\ ret.stamped
    /\ trace[Len(trace)] = "warning"

\* C25: whichever way the captcha surface is delivered, as a frame of the
\* page or as a separate surface whose URL stands in an inline script, login
\* goes on from the popup wait to the captcha resolution: the popup wait
\* ends in an error only when no surface was delivered at all.
C25_EitherDeliveryReachesCaptcha ==
    (ret.step = "popup" /\ ret.status = "raised") => page.delivery = "none"

\* C26: when the popup carries the grid captcha, login has run the grid
\* solver by the time it waits for the Login button.
C26_GridSolvedBeforeSubmit ==
    (page.kind = "grid" /\ ret.step \in {"submit", "url"}) =>
       Positions("solve_bls_grid") # {}

-----------------------------------------------------------------------------
(* Properties of fill_form *)

\* the field a label stands for: the first key of FIELD_DEFS its lower-cased
\* text holds, 0 when it holds none
FieldOfLabel(i) ==
    LET text == Lower(page.labels[i])
        holds(f) == \E k \in 0..(Len(text) - Len(FIELD_DEFS[f].key)) :
                       SubSeq(text, k + 1, k + Len(FIELD_DEFS[f].key))
                         = FIELD_DEFS[f].key
    IN IF \E f \in FieldIds : holds(f)
       THEN CHOOSE f \in FieldIds : holds(f) /\ \A g \in 1..(f - 1) : ~holds(g)
       ELSE 0

\* the fields some label of the page stands for
FieldsOnPage == {FieldOfLabel(i) : i \in 1..Len(page.labels)} \ {0}

\* the fields the fill routines ran for
FieldsFilled == {trace[k].field : k \in 1..Len(trace)}

\* fill_form is over, not by an error of a page operation
FillOver == ret.status \in {"returned", "raised"}

\* C27: fill_form returns normally exactly when each of the six fields of
\* FIELD_DEFS was matched by a label and filled; otherwise it raises, and
\* the error names exactly the fields no label was found for; check_once
\* goes on to submit_and_check only after a normal return.
C27_AllFieldsOrMissingError ==
    /\ FillOver =>
         /\ ret.status = "returned" <=>
              (FieldsOnPage = FieldIds /\ FieldsFilled = FieldIds)
         /\ ret.status = "raised" =>
              /\ ret.missing = FieldIds \ FieldsOnPage
              /\ ret.missing # {}
              /\ FieldsFilled = FieldsOnPage
    /\ ret.step = "submit_and_check" =>
         (ret.status = "returned" /\ FieldsFilled = FieldIds)
    /\ ret.status = "page_error" => ret.step # "submit_and_check"

\* the form has no label for the visa sub type: the five others were
\* filled and the error names that field alone
C27_Witness ==
    /\ ret.status = "raised"
    /\ ret.missing = {6}
    /\ Len(trace) = 5

\* C28: what fill_form fills depends on the set of labels only, not on
\* their order: when the loop is over the filled fields are the fields the
\* labels of the page stand for, whatever the order and whatever repeated
\* or unrelated labels stand between them; each field is filled once, with
\* the configured value and by the routine of its type, at the first label
\* that stands for it, so the fills follow the order of the labels.
C28_LabelOrderIndependent ==
    /\ FillOver => FieldsFilled = FieldsOnPage
    /\ \A k \in 1..Len(trace) :
         /\ trace[k].field = FieldOfLabel(trace[k].label)
         /\ \A i \in 1..(trace[k].label - 1) :
              FieldOfLabel(i) # trace[k].field
         /\ trace[k].value = FIELD_DEFS[trace[k].field].config_key
         /\ trace[k].op = FIELD_DEFS[trace[k].field].type
         /\ \A j \in 1..(k - 1) :
              /\ trace[j].field # trace[k].field
              /\ trace[j].label < trace[k].label
    /\ \A i \in 1..(ret.i - 1) :
         FieldOfLabel(i) # 0 => FieldOfLabel(i) \in FieldsFilled

\* the six labels in the reverse of the FIELD_DEFS order, with a second
\* label of the location field before the first: all six filled, sub type
\* first, the later location label passed over
C28_Witness ==
    /\ ret.status = "returned"
    /\ Len(page.labels) = 7
    /\ page.labels[1] = <<"Visa", "Sub", "Type">>
    /\ page.labels[2] = <<"LOCATION", "*">>
    /\ page.labels[7] = <<"Appointment", "Category">>
    /\ trace[1].field = 6 /\ trace[2].field = 4 /\ trace[6].field = 1
    /\ Len(trace) = 6

-----------------------------------------------------------------------------
(* Properties of the health report *)

\* the health reports sent while total_checks was n
ReportsAt(n) == Cardinality({k \in 1..Len(trace) : trace[k] = n})

\* C29: a health report is sent exactly once each time total_checks reaches
\* a positive multiple of BALANCE_CHECK_INTERVAL and not again until the
\* next multiple, whatever the interleaving of returning and raising cycles.
C29_OneReportPerMultiple ==
    \A n \in 0..total_checks :
       ReportsAt(n) = (IF n > 0 /\ n % BALANCE_CHECK_INTERVAL = 0 THEN 1 ELSE 0)

-----------------------------------------------------------------------------
(* Properties of the slot alert *)

\* slot alerts among the notifier calls since the last inter-cycle wait
SlotAlerts(out) == Cardinality({i \in 1..Len(out) : out[i] = "slot_alert"})

\* a step in which check_once returns with the given result
ReturnedWith(available) ==
    /\ pc = "checking" /\ stage = "screenshot"
    /\ pc' # "checking" /\ last_exc' = "none"
    /\ loc.available = available

\* C30: a cycle that returns available = True sends exactly one slot alert,
\* with the screenshot that cycle wrote on disk as its evidence, and parks
\* the loop in the 60 s pause; the pause is followed by the randomized wait
\* (or by the shutdown, when a signal came), never directly by a cycle; a
\* cycle that returns False or raises sends no slot alert.
C30_OneAlertThenPause ==
    [][/\ ReturnedWith(TRUE) =>
            /\ SlotAlerts(outbox') = SlotAlerts(outbox) + 1
            /\ pc' = "pause"
            /\ rotation'.written = last_ts' /\ last_ts' \in shots'
            /\ last_ts' # last_ts
       /\ SlotAlerts(outbox') > SlotAlerts(outbox) => ReturnedWith(TRUE)
       /\ (pc' = "pause" /\ pc # "pause") => ReturnedWith(TRUE)
       /\ (pc = "pause" /\ pc' # "pause") =>
            /\ pc' \in {"wait", "closing_final", "done"}
            /\ pc' = "wait" <=> ~shutdown
            /\ stage' = "idle"
            /\ SlotAlerts(outbox') = SlotAlerts(outbox)
       /\ (stage = "idle" /\ stage' # "idle") => pc \in {"init", "wait", "launching"}
      ]_vars

\* the pause after an alert is over and the loop is in its randomized wait,
\* the one alert of the cycle sent
C30_Witness ==
    /\ pc = "wait"
    /\ total_checks = 1
    /\ outbox # <<>> /\ outbox[Len(outbox)] = "slot_alert"
    /\ last_ts \in shots

-----------------------------------------------------------------------------
(* Properties of the remote solving *)

\* C31: _solve_remote called with a kind that has no solving strategy has
\* raised ValueError when it first gives up control: on its first attempt,
\* with no call of the solving service, no retry and no sleep.
C31_UnsupportedFailsAtOnce ==
    (/\ ret.entry = "_solve_remote"
     /\ page.kind \notin Families
     /\ ~(ret.status = "pending" /\ ret.step = "entry")) =>
       /\ ret.status = "raised"
       /\ ret.error = "ValueError"
       /\ ret.attempt = 1
       /\ trace = <<>>

\* the grid kind was passed to _solve_remote and the call is over
C31_Witness ==
    /\ ret.entry = "_solve_remote"
    /\ page.kind = "grid"
    /\ ret.status = "raised"
    /\ ret.error = "ValueError"

\* no response field of the document has been written
Untouched == \A f \in ResponseFields : page.value[f] = <<>>

-----------------------------------------------------------------------------
(* Properties of the grid solver's recognition and click loops *)

\* the cells the trace shows an operation on, in the order of the trace
CellSeq(op) ==
    LET s == SelectSeq(trace, LAMBDA e : e.op = op)
    IN [n \in 1..Len(s) |-> s[n].cell]

\* the cells of the page the recognition loop has a call for: those the cell
\* script returns that carry an id and a data: src
RecognitionCandidates ==
    SelectSeq(VisibleCells(page.cells, 1),
              LAMBDA c : Recognizable(page.cells[c]))

\* the number the label script extracts from the page (0: none)
PageTarget ==
    IF TargetLabel(page.labels) = 0 THEN 0
    ELSE page.labels[TargetLabel(page.labels)].num

\* the candidates the service answers the target for
PageMatches ==
    SelectSeq(RecognitionCandidates,
              LAMBDA c : page.cells[c].val = PageTarget)

\* the loop of step 3 has run to its end
RecognitionOver ==
    \/ ret.status = "True"
    \/ ret.status = "False" /\ ret.cells # <<>>
    \/ ret.status \in {"pending", "raised"} /\ ret.step \in {"click", "submit"}

\* C33: a recognition call that fails does not end the solve: no exception
\* leaves solve_bls_grid from the recognition loop, at the end of the loop
\* every candidate cell has been sent for recognition, once and in document
\* order, and a solve that returns True has clicked exactly the candidates
\* that matched the target and then the submit control.
C33_FailedCellSkipped ==
    /\ ret.status = "raised" => ret.step # "recognize"
    /\ RecognitionOver => CellSeq("recognize") = RecognitionCandidates
    /\ ret.status = "True" =>
          /\ CellSeq("click") = PageMatches
          /\ trace[Len(trace)].op = "submit"

\* the call for the first cell raised, the second cell was still recognized,
\* matched, and was clicked and submitted
C33_Witness ==
    /\ ret.status = "True"
    /\ Len(page.cells) = 2
    /\ page.cells[1] = [kind |-> "real", val |-> 0]
    /\ page.cells[2].kind = "real"
    /\ CellSeq("recognize") = <<1, 2>>
    /\ CellSeq("click") = <<2>>

\* the number of operations of a kind the trace shows on a cell
OpCount(op, c) ==
    Cardinality({n \in 1..Len(trace) : trace[n].op = op /\ trace[n].cell = c})

\* C38: no cell is clicked twice and the submit control is clicked at most
\* once and after every cell click; once the submit control has been clicked
\* every matching cell has been clicked exactly once, and a solve that
\* returns True has clicked the submit control exactly once.
C38_EachMatchClickedOnce ==
    /\ \A c \in 1..Len(page.cells) : OpCount("click", c) <= 1
    /\ OpCount("submit", 0) <= 1
    /\ \A n, m \in 1..Len(trace) :
          (trace[n].op = "submit" /\ trace[m].op = "click") => m < n
    /\ OpCount("submit", 0) = 1 =>
          \A n \in 1..Len(PageMatches) : OpCount("click", PageMatches[n]) = 1
    /\ ret.status = "True" => OpCount("submit", 0) = 1

\* two cells matched: each was clicked once, then the submit control once
C38_Witness ==
    /\ ret.status = "True"
    /\ Len(PageMatches) = 2
    /\ Len(trace) = 5
    /\ OpCount("click", PageMatches[1]) = 1
    /\ OpCount("click", PageMatches[2]) = 1
    /\ trace[5].op = "submit"

-----------------------------------------------------------------------------
(* Properties of the consent step of login *)

\* the boxes the consent step has checked
CheckedBoxes == {trace[n] : n \in 1..Len(trace)}

\* the visible consent boxes of the form
VisibleConsent ==
    {n \in 1..Len(page.boxes) :
        page.boxes[n].visible /\ page.boxes[n].consent}

\* C34 as stated: a box is checked only if it is visible, a form with a
\* visible consent box has one checked by the time Verify is clicked, and a
\* form without any checkbox does not make the step raise.
C34_VisibleConsentChecked ==
    /\ \A n \in CheckedBoxes : page.boxes[n].visible
    /\ (ret.status = "verify_clicked" /\ VisibleConsent # {}) =>
          CheckedBoxes \cap VisibleConsent # {}
    /\ page.boxes = <<>> => ret.status # "raised"

-----------------------------------------------------------------------------
(* Properties of the radio field and its dialog *)

\* the dialog step of the radio field is over: confirmed, failed or timed out
DialogSettled(n) ==
    trace[n].op \in {"confirm_click", "confirm_failed", "timeout"}

-----------------------------------------------------------------------------
(* Properties of the browser processes *)

\* the Chrome processes started by the monitor that are alive: the one of
\* the BrowserManager run holds, and those no BrowserManager of run refers to
ChromeAlive == orphans + (IF browser = "live" THEN 1 ELSE 0)

\* C36 as stated: at most one Chrome process started by the monitor is alive,
\* and a launch only begins when no earlier one is left alive.
C36_AtMostOneChrome ==
    /\ ChromeAlive <= 1
    /\ pc = "launching" => orphans = 0

-----------------------------------------------------------------------------
(* Properties of a failing cycle *)

\* a step in which an exception leaves the try block of an iteration: from
\* the creation of the components or from a stage of check_once
CycleFailed ==
    /\ pc \in {"launching", "checking"}
    /\ last_exc = "none" /\ last_exc' # "none"

\* C37: a slot alert is sent only in the step in which check_once returns
\* from its last stage with the classification "available"; a step in which
\* a cycle fails sends no slot alert, leaves total_checks as it was and
\* leaves the check_*.png files as they were; a screenshot is only written by
\* a cycle that returns, so there are as many files as counted checks (below
\* the cap nothing is removed).
C37_FailingCycleLeavesNoTrace ==
    /\ [](Cardinality(shots) = total_checks)
    /\ [][/\ SlotAlerts(outbox') > SlotAlerts(outbox) =>
               /\ pc = "checking" /\ stage = "screenshot"
               /\ loc.available
               /\ last_exc' = "none"
               /\ total_checks' = total_checks + 1
          /\ CycleFailed =>
               /\ SlotAlerts(outbox') <= SlotAlerts(outbox)
               /\ total_checks' = total_checks
               /\ shots' = shots /\ last_ts' = last_ts
          /\ shots' # shots => (pc = "checking" /\ last_exc' = "none")
         ]_vars

\* after one cycle that returned, the next cycle ran through to its last
\* stage and its screenshot raised: one check counted, one file, no alert
C37_Witness ==
    /\ last_exc = "screenshot"
    /\ total_checks = 1
    /\ Cardinality(shots) = 1
    /\ SlotAlerts(outbox) = 0
    /\ consecutive_errors = 1

-----------------------------------------------------------------------------
(* Properties of the select fields *)

\* C39 as stated: every write of the configured value, by select_option or
\* by the fallback script, goes to the select of the field whose label
\* matched.
C39_OnlyOwnSelect ==
    \A n \in 1..Len(trace) : trace[n].field = page.target

====
